---- MODULE Spec2Model ----
(***************************************************************************)
(* WaveJudge: a model of the judge worker node.                            *)
(*                                                                         *)
(* The module holds one state machine per component, each with its own     *)
(* specification over the shared variable list:                            *)
(*   SpecJudge    the judge engine's per-test-case loop                    *)
(*   SpecDaemon   the sandbox monitor daemon and the Process handle        *)
(*   SpecStore    the problem store's get under the per-id key lock        *)
(*   SpecFork     the fork-server client and the fork server's loop        *)
(*   SpecWorker   a worker thread of the driver                            *)
(*   SpecArchive  the archive store's get_or_download                      *)
(*   SpecPool     workers::run, which spawns and joins the worker threads  *)
(*   SpecSeccomp  a sandboxed child under its syscall filter               *)
(*   SpecRusage   ProcessResourceUsage::update on two usage records        *)
(*   SpecObjectid parsing and formatting of restful::entities::ObjectId    *)
(*   SpecCompile  compile_source and its temporary file and directory      *)
(*   SpecLocks    the mutexes the worker threads share                     *)
(*   SpecPipe     a child writing to a pipe that the engine reads          *)
(*   SpecRow      two consecutive ProblemStore::get calls for one problem  *)
(* A component's specification keeps the other components' variables at    *)
(* their idle values.                                                      *)
(***************************************************************************)
EXTENDS Integers, Sequences, FiniteSets, TLC

(***************************************************************************)
(* Bounds of the model.                                                    *)
(***************************************************************************)
MaxCases == 3
MaxCpu == 2      \* clock ticks of cpu time a child may consume
MaxMem == 2      \* units of virtual memory a child may map
MaxTime == 2     \* ticks of wall-clock time the daemon may observe
MaxLimit == 1    \* largest value of a configured limit
NumThreads == 2  \* worker threads calling the problem store
MaxCalls == 2    \* ProblemStore::get calls made in a run
MaxTs == 1       \* largest timestamp the dispatcher gives a problem
MaxCmds == 3     \* execute_cmd calls made in a run
MaxSubs == 3     \* submissions the dispatcher hands to the worker
MaxEntries == 4  \* entries of a test archive
MaxGets == 2     \* ArchiveStore::get_or_download calls made in a run
MaxWorkers == 5  \* largest config.workers
MaxChildThreads == 2  \* threads a sandboxed child may have
MaxVaried == 2  \* leading bytes of an object id that vary
MaxText == 6  \* units of text a child writes to its pipe
PipeCapacity == 2  \* units of text the kernel holds of a pipe
MaxSrcLen == 3  \* letters of a jury source

(***************************************************************************)
(* sandbox::ProcessExitStatus.  A status is a record [kind, arg]; arg is   *)
(* the exit code of Normal, the signal of KilledBySignal, 0 otherwise.     *)
(***************************************************************************)
SIGKILL == 9
SIGUSR1 == 10
SIGSEGV == 11
SIGSYS == 31

ExitCodes == {0, 1}

Status(k, a) == [kind |-> k, arg |-> a]

NotExited == Status("NotExited", 0)

ProcessExitStatus ==
    {NotExited}
    \cup {Status("Normal", c) : c \in ExitCodes}
    \cup {Status("KilledBySignal", s) : s \in {SIGKILL, SIGSEGV}}
    \cup {Status(k, 0) : k \in {"CPUTimeLimitExceeded", "RealTimeLimitExceeded",
                                "MemoryLimitExceeded", "BannedSyscall"}}

TerminalStatus == ProcessExitStatus \ {NotExited}

(***************************************************************************)
(* judge::Verdict and judge::JudgeResult.                                  *)
(***************************************************************************)
Verdict == {"Accepted", "WrongAnswer", "RuntimeError", "TimeLimitExceeded",
            "MemoryLimitExceeded", "IdlenessLimitExceeded", "BannedSystemCall",
            "CheckerFailed", "InteractorFailed"}

is_accepted(v) == v = "Accepted"

\* impl BitAndAssign for Verdict: an Accepted receiver takes the operand.
bitand_assign(self, rhs) == IF is_accepted(self) THEN rhs ELSE self

\* sandbox::ProcessResourceUsage and ProcessResourceUsage::new
Usage(u, k, v, r) ==
    [user_cpu_time |-> u, kernel_cpu_time |-> k,
     virtual_mem_size |-> v, resident_set_size |-> r]

ProcessResourceUsage_new == Usage(0, 0, 0, 0)

\* ProcessResourceUsage::cpu_time
cpu_time(u) == u.user_cpu_time + u.kernel_cpu_time

\* TestCaseResult::new
TestCaseResult_new ==
    [verdict |-> "Accepted", judgee_exit_status |-> NotExited, comment |-> "None",
     rusage |-> ProcessResourceUsage_new]

\* TestCaseResult::set_judgee_exit_status; "panic" stands for the panic on
\* NotExited.
set_judgee_exit_status(status) ==
    CASE status.kind = "Normal" -> "Accepted"
      [] status.kind = "KilledBySignal" -> "RuntimeError"
      [] status.kind = "CPUTimeLimitExceeded" -> "TimeLimitExceeded"
      [] status.kind = "RealTimeLimitExceeded" -> "IdlenessLimitExceeded"
      [] status.kind = "MemoryLimitExceeded" -> "MemoryLimitExceeded"
      [] status.kind = "BannedSyscall" -> "BannedSystemCall"
      [] OTHER -> "panic"

\* JudgeResult::new
JudgeResult_new == [verdict |-> "Accepted", test_suite |-> <<>>]

\* JudgeResult::add_test_case_result
add_test_case_result(res, tc) ==
    [verdict |-> bitand_assign(res.verdict, tc.verdict),
     test_suite |-> Append(res.test_suite, tc)]

(***************************************************************************)
(* State of the judge engine: one judge task under JudgeContext::execute.  *)
(***************************************************************************)
VARIABLES
    jMode,      \* task.mode: "Standard", "SpecialJudge" or "Interactive"
    jSuiteLen,  \* task.test_suite.len()
    jIdx,       \* number of test cases the for loop has taken
    jResult,    \* res, the JudgeResult under construction
    jPc,        \* "loop", "done" (Ok(res)), "error" (Err) or "panic"
    jJury,      \* {} or {the exit status of the checker process that ran for
                \* the latest test case}
    jLimit      \* task.limits.cpu_time_limit

judgeVars == <<jMode, jSuiteLen, jIdx, jResult, jPc, jJury, jLimit>>

VARIABLES
    dJuryConfig, \* {} or, when the child is a jury, {the jury limits of the
                \* JudgeEngineConfig of the engine that built it}
    dBuilder,   \* the ProcessBuilder that started the child: [use_native_rlimit, limits]
    dLimits,    \* context.limits: {} (None) or {record of optional limits}
    cState,     \* the child: "running", "zombie" (terminated) or "reaped"
    cTerm,      \* how the child terminated (a wait status), once it has
    cUsage,     \* the child's current /proc/<pid>/stat figures
    dElapsed,   \* timer.elapsed() as the latest limit check read it
    dPc,        \* daemon thread: "wait", "sample", "check", "drop" (daemon_main
                \* returns), "store" (the closure of start) or "finished"
    dKill,      \* wait_guard.kill
    dKillSent,  \* the guard's drop has sent SIGKILL
    dSample,    \* {} or {[usage, elapsed]}: the latest sample, and the
                \* elapsed time its limit check read ({} until it has)
    dStatus,    \* context.status
    dRusage,    \* context.rusage: {} (None) or {usage}
    dOutcome,   \* daemon thread: "running", "ok" or "panicked"
    dResult,    \* {} or {what daemon_main returned}
    hPc,        \* caller of the handle: "attached", "joined_ok", "joined_err", "read"
    hRead       \* {} or {the status the caller read after wait_for_exit}

daemonVars == <<dJuryConfig, dBuilder, dLimits, cState, cTerm, cUsage, dElapsed, dPc, dKill, dKillSent,
                dSample, dStatus, dRusage, dOutcome, dResult, hPc, hRead>>

VARIABLES
    kKeys,      \* KeyLock.keys: key -> [count, mtx] for the keys in the map
    kLocked,    \* the entry mutexes that are locked
    sPc,        \* thread -> "enter", "lock", "check", "fetch", "compile",
                \*           "save", "unlock" or "exit"
    sKey,       \* thread -> the id its get call was made with
    sMtx,       \* thread -> its clone of the entry mutex (0: none)
    sMeta,      \* thread -> {} or {metadata}, the local `metadata`
    sSeen,      \* thread -> the cached and the remote timestamp its call read,
                \* and the fork server's answer to its Compile command (until
                \* the metadata is saved)
    sDid,       \* thread -> what its call has done so far
    sRet,       \* thread -> {} or {the value its latest call returned}
    sCalls,     \* number of get calls made so far
    rInfo,      \* id -> the dispatcher's ProblemInfo
    db,         \* id -> {} or {row} of the sqlite table `problems`
    nReq        \* id -> dispatcher round trips made: [ts, info]

storeVars == <<kKeys, kLocked, sPc, sKey, sMtx, sMeta, sSeen, sDid, sRet, sCalls,
               rInfo, db, nReq>>

VARIABLES
    fPc,        \* thread -> "idle", "lock", "send" or "receive" in execute_cmd
    fCmd,       \* thread -> the command of its call
    fRes,       \* thread -> {} or {what its latest call returned}
    fLock,      \* ForkServerClient.socket: the thread holding the mutex, or 0
    fSent,      \* number of commands written to the pipe so far
    toServer,   \* the pipe to the fork server: the commands written, unread
    toClient,   \* the pipe to the client: the results written, unread
    srvPc,      \* fork server: "receive", "handle" or "exited"
    srvCmd,     \* {} or {the command the fork server is handling}
    srvLog      \* the commands the fork server has answered, in order

forkVars == <<fPc, fCmd, fRes, fLock, fSent, toServer, toClient, srvPc, srvCmd,
              srvLog>>

VARIABLES
    wPc,        \* the worker thread: "poll", "handle", "patch" or "panicked"
    wSub,       \* the submission it has in hand (0: none)
    wResult,    \* {} or {the SubmissionJudgeResult to report}
    wRetry,     \* retry_count
    wFetched,   \* number of submissions it has obtained from the dispatcher
    wPatched,   \* submission -> number of PATCH requests made for it
    wProblem,   \* {} or {the metadata the problem store gave for wSub}
    wHandled,   \* how handle_submission ended for wSub: "none" (not yet),
                \* "ok", "err" or "panic"
    wCompiler,  \* {} or {the exit status of the compiler run for wSub}
    wCompiled   \* {} or {the CompilationResult the Compile call returned}

workerVars == <<wPc, wSub, wResult, wRetry, wFetched, wPatched, wProblem,
                wHandled, wCompiler, wCompiled>>

VARIABLES
    aZip,       \* the zip the dispatcher serves for the archive: its entries'
                \* sanitized names, by index
    aDir,       \* whether the archive directory exists
    aMeta,      \* {} or {the bytes of metadata.json}
    aFiles,     \* the entry files there are in the archive directory
    aWriting,   \* <<caller, entry file>>: created and not yet copied out
    aPc,        \* per caller: where in get_or_download it is, and the token
                \* of metadata.json or the entry its extraction is at
    aTried,     \* per caller: {} or {what TestArchiveMetadata::try_from gave
                \* of aZip}
    aRet,       \* per caller: {} or {what its get_or_download returned}
    aBuf,       \* per caller: the bytes from_reader has read of metadata.json
    aOpened     \* {} or {how the opens of the input file and of the answer
                \* file of a test case of a handle went, {} for none yet}

archiveVars ==
    <<aZip, aDir, aMeta, aFiles, aWriting, aPc, aTried, aRet, aBuf, aOpened>>

VARIABLES
    pWorkers,   \* context.config.workers
    pPc,        \* run: "start", "spawn", "join", "ok" (Ok(())) or "err"
    pNext,      \* the worker id the spawn loop or the join loop is at
    pThread,    \* worker id -> "none", "running" or "panicked"
    pFailed     \* worker_id of the WorkerFailed error (0: none)

poolVars == <<pWorkers, pPc, pNext, pThread, pFailed>>

VARIABLES
    xWhitelist, \* the builder's syscall_whitelist
    xFilter,    \* {} or {the seccomp filter loaded into the child}
    xPc,        \* the child: "forked", "filtered", "running" or "dead"
    xThreads,   \* number of threads the child has
    xBanned,    \* a thread of the child has made a syscall outside the list
    xTerm,      \* {} or {the wait status of the terminated child}
    xStatus     \* {} or {what the monitor makes of the wait status}

seccompVars == <<xWhitelist, xFilter, xPc, xThreads, xBanned, xTerm, xStatus>>

(***************************************************************************)
(* ProcessResourceUsage::update on its own: two usage records a and b, and *)
(* the receivers after a.update(&b) and after b.update(&a).  Memory sizes  *)
(* are compared by MemorySize::cmp, that is by their number of bytes,      *)
(* which is what the fields of the model hold.                             *)
(***************************************************************************)
VARIABLES
    uA,   \* the record a
    uB,   \* the record b
    uAB,  \* {} or {a after a.update(&b)}
    uBA   \* {} or {b after b.update(&a)}

rusageVars == <<uA, uB, uAB, uBA>>

(***************************************************************************)
(* restful::entities::ObjectId: parsing a string into the 12 bytes of an   *)
(* id and formatting an id as text.  A string is a sequence of one-letter  *)
(* strings, an id is the sequence of its 12 bytes.                         *)
(***************************************************************************)
VARIABLES
    oStr,    \* the string handed to ObjectId::from_str
    oParsed, \* {} or {the result of ObjectId::from_str(oStr)}
    oId,     \* {} or {an ObjectId}
    oText,   \* {} or {format!("{}", id)}
    oBack    \* {} or {the result of ObjectId::from_str(text)}

objectidVars == <<oStr, oParsed, oId, oText, oBack>>

(***************************************************************************)
(* ForkServerClientExt::compile_source: the temporary source file and the  *)
(* temporary output directory of every call, and what the call returns.    *)
(* Temporary names are unique; <<t, "src">> is the source file of thread   *)
(* t's call and <<t, "out">> the file the compiler writes into the call's  *)
(* output directory.                                                       *)
(***************************************************************************)
VARIABLES
    csPc,     \* per thread: "idle", "src", "dir", "exec" or "return"
    csInterp, \* per thread: the language of the call is interpreted
    csFiles,  \* the temporary files that exist
    csDirs,   \* the threads whose temporary output directory exists
    csResult, \* per thread: {} or {the CompilationResult of execute_cmd}
    csRet     \* per thread: {} or {what compile_source returned}

compileVars == <<csPc, csInterp, csFiles, csDirs, csResult, csRet>>

(***************************************************************************)
(* The mutexes the worker threads share, and the order in which a worker   *)
(* takes and releases them while it handles one submission.                *)
(***************************************************************************)
VARIABLES
    lkOps,   \* per thread: the lock operations of the call it is in
    lkOwner, \* per mutex: the thread that holds it, 0 for none
    lkPc     \* per thread: the call it is in, its problem, its PATCH attempts

locksVars == <<lkOps, lkOwner, lkPc>>

(***************************************************************************)
(* A child whose stderr (a compiler) or stdout (a special-judge checker)   *)
(* is redirected to a pipe, and the engine, which starts the child, waits  *)
(* for its exit and reads the pipe afterwards.  The text is counted in     *)
(* units; the kernel holds at most PipeCapacity units of a pipe, and a     *)
(* write to a full pipe blocks until the pipe is read.                     *)
(***************************************************************************)
VARIABLES
    ppKind,    \* "compiler" (execute_compiler) or "checker" (judge_spj)
    ppText,    \* units of text the child writes before it exits
    ppCode,    \* the exit code the child exits with
    ppWritten, \* units the child has written
    ppBuf,     \* units in the pipe
    ppChild,   \* "running", "exited" or "killed"
    ppEngine,  \* "wait" (in wait_for_exit), "read" (about to read) or "done"
    ppStatus,  \* {} or {exit_status() after wait_for_exit}
    ppMsg      \* {} or {units read by read_to_string}

pipeVars == <<ppKind, ppText, ppCode, ppWritten, ppBuf, ppChild, ppEngine,
    ppStatus, ppMsg>>

(***************************************************************************)
(* Two consecutive calls of ProblemStore::get for one problem by one       *)
(* caller, the dispatcher's problem unchanged in between: the first call   *)
(* finds no row and takes the refetch path.                                *)
(***************************************************************************)
VARIABLES
    rwInfo,    \* the ProblemInfo the dispatcher serves
    rwDb,      \* the rows of the problems table with the problem's id
    rwFirst,   \* {} or {what the first get returned}
    rwSecond,  \* {} or {what the second get returned}
    rwFetches  \* get_problem_info requests made

rowVars == <<rwInfo, rwDb, rwFirst, rwSecond, rwFetches>>

vars == <<judgeVars, daemonVars, storeVars, forkVars, workerVars, archiveVars,
          poolVars, seccompVars,
    rusageVars,
    objectidVars,
    compileVars,
    locksVars,
    pipeVars,
    rowVars>>

\* What a component's actions leave alone: the other components' variables.
notJudge == <<daemonVars, storeVars, forkVars, workerVars, archiveVars,
    poolVars, seccompVars,
    rusageVars,
    objectidVars,
    compileVars,
    locksVars,
    pipeVars,
    rowVars>>
notDaemon == <<judgeVars, storeVars, forkVars, workerVars, archiveVars,
    poolVars, seccompVars,
    rusageVars,
    objectidVars,
    compileVars,
    locksVars,
    pipeVars,
    rowVars>>
notStore == <<judgeVars, daemonVars, forkVars, workerVars, archiveVars,
    poolVars, seccompVars,
    rusageVars,
    objectidVars,
    compileVars,
    locksVars,
    pipeVars,
    rowVars>>
notFork == <<judgeVars, daemonVars, storeVars, workerVars, archiveVars,
    poolVars, seccompVars,
    rusageVars,
    objectidVars,
    compileVars,
    locksVars,
    pipeVars,
    rowVars>>
notWorker == <<judgeVars, daemonVars, storeVars, forkVars, archiveVars,
    poolVars, seccompVars,
    rusageVars,
    objectidVars,
    compileVars,
    locksVars,
    pipeVars,
    rowVars>>
notArchive == <<judgeVars, daemonVars, storeVars, forkVars, workerVars, poolVars,
    seccompVars,
    rusageVars,
    objectidVars,
    compileVars,
    locksVars,
    pipeVars,
    rowVars>>
notPool == <<judgeVars, daemonVars, storeVars, forkVars, workerVars, archiveVars,
    seccompVars,
    rusageVars,
    objectidVars,
    compileVars,
    locksVars,
    pipeVars,
    rowVars>>
notSeccomp == <<judgeVars, daemonVars, storeVars, forkVars, workerVars, archiveVars,
    poolVars,
    rusageVars,
    objectidVars,
    compileVars,
    locksVars,
    pipeVars,
    rowVars>>
notRusage == <<judgeVars, daemonVars, storeVars, forkVars,
    workerVars, archiveVars, poolVars, seccompVars,
    objectidVars,
    compileVars,
    locksVars,
    pipeVars,
    rowVars>>
notObjectid == <<judgeVars, daemonVars, storeVars, forkVars,
    workerVars, archiveVars, poolVars, seccompVars,
    rusageVars,
    compileVars,
    locksVars,
    pipeVars,
    rowVars>>
notCompile == <<judgeVars, daemonVars, storeVars, forkVars,
    workerVars, archiveVars, poolVars, seccompVars,
    rusageVars, objectidVars,
    locksVars,
    pipeVars,
    rowVars>>
notLocks == <<judgeVars, daemonVars, storeVars, forkVars,
    workerVars, archiveVars, poolVars, seccompVars,
    rusageVars, objectidVars, compileVars,
    pipeVars,
    rowVars>>
notPipe == <<judgeVars, daemonVars, storeVars, forkVars,
    workerVars, archiveVars, poolVars, seccompVars,
    rusageVars, objectidVars, compileVars, locksVars,
    rowVars>>
notRow == <<judgeVars, daemonVars, storeVars, forkVars,
    workerVars, archiveVars, poolVars, seccompVars,
    rusageVars, objectidVars, compileVars, locksVars,
    pipeVars>>

JudgeModes == {"Standard", "SpecialJudge", "Interactive"}

JudgeIdle ==
    /\ jMode = "Standard"
    /\ jSuiteLen = 0
    /\ jIdx = 0
    /\ jResult = JudgeResult_new
    /\ jPc = "idle"
    /\ jJury = {}
    /\ jLimit = 1

JudgeInit ==
    /\ jMode \in JudgeModes
    /\ jSuiteLen \in 0..MaxCases
    /\ jIdx = 0
    /\ jResult = JudgeResult_new
    /\ jPc = "loop"
    /\ jJury = {}
    /\ jLimit \in 1..MaxLimit

\* JudgeEngineExecutor::execute_judgee: the test-case result after the judgee
\* has exited with `status`.
execute_judgee(status) ==
    [TestCaseResult_new EXCEPT !.judgee_exit_status = status,
                               !.verdict = set_judgee_exit_status(status)]

\* The comment of a CheckerResult of builtin_checker_exec: "OK: n tokens."
\* when it accepts, what it expected and found when it rejects.
checker_comment(accepted) == IF accepted THEN "OK" ELSE "expect"

\* A judge_std that checks the output of a judgee that did not pass as well.
judge_std_always_checks(status, accepted) ==
    [execute_judgee(status) EXCEPT
        !.comment = checker_comment(accepted),
        !.verdict = IF accepted THEN "Accepted" ELSE "WrongAnswer"]

\* JudgeEngineExecutor::judge_std: the built-in checker runs only on a judgee
\* that passed.
judge_std(status, accepted) ==
    LET r == execute_judgee(status) IN
    IF ~is_accepted(r.verdict) THEN r
    ELSE [r EXCEPT !.comment = checker_comment(accepted),
                   !.verdict = IF accepted THEN "Accepted" ELSE "WrongAnswer"]

\* A judge_spj that takes every normal exit of the checker for acceptance.
judge_spj_any_exit(status, checker) ==
    LET r == execute_judgee(status) IN
    IF ~is_accepted(r.verdict) THEN r
    ELSE IF checker.kind = "Normal"
         THEN [r EXCEPT !.verdict = "Accepted", !.comment = "stdout"]
         ELSE [r EXCEPT !.verdict = "CheckerFailed", !.comment = checker.kind]

\* JudgeEngineExecutor::judge_spj: the checker process runs only on a judgee
\* that passed; its exit status decides the verdict.
judge_spj(status, checker) ==
    LET r == execute_judgee(status) IN
    IF ~is_accepted(r.verdict) THEN r
    ELSE CASE checker.kind = "Normal" /\ checker.arg = 0 ->
                [r EXCEPT !.verdict = "Accepted", !.comment = "stdout"]
           [] checker.kind = "Normal" /\ checker.arg # 0 ->
                [r EXCEPT !.verdict = "WrongAnswer", !.comment = "stdout"]
           [] OTHER ->
                [r EXCEPT !.verdict = "CheckerFailed", !.comment = checker.kind]

\* What the for loop of JudgeContext::execute does once a test case has been
\* judged: the result is added and the loop goes on to the next test case.
execute_next(tc) ==
    /\ jResult' = add_test_case_result(jResult, tc)
    /\ jIdx' = jIdx + 1
    /\ jPc' = "loop"

\* One iteration of JudgeContext::execute in standard mode.
ExecuteStd ==
    /\ jPc = "loop" /\ jIdx < jSuiteLen /\ jMode = "Standard"
    /\ \E status \in TerminalStatus, accepted \in BOOLEAN :
          execute_next(judge_std(status, accepted))
    /\ jJury' = {}
    /\ UNCHANGED <<jMode, jLimit, jSuiteLen, notJudge>>

\* One iteration of JudgeContext::execute in special judge mode.
ExecuteSpj ==
    /\ jPc = "loop" /\ jIdx < jSuiteLen /\ jMode = "SpecialJudge"
    /\ \E status \in TerminalStatus, checker \in TerminalStatus :
          /\ execute_next(judge_spj(status, checker))
          /\ jJury' = IF is_accepted(execute_judgee(status).verdict)
                      THEN {checker} ELSE {}
    /\ UNCHANGED <<jMode, jLimit, jSuiteLen, notJudge>>

\* A judge_interactive that returns Ok(()) without touching the result.
judge_interactive_stub(tc) == "ok"

\* JudgeEngineExecutor::judge_interactive: unimplemented!(), a panic.
judge_interactive(tc) == "panic"

\* One iteration of JudgeContext::execute in interactive mode.
ExecuteInteractive ==
    /\ jPc = "loop" /\ jIdx < jSuiteLen /\ jMode = "Interactive"
    /\ IF judge_interactive(TestCaseResult_new) = "panic"
       THEN jPc' = "panic" /\ UNCHANGED <<jIdx, jResult>>
       ELSE execute_next(TestCaseResult_new)
    /\ UNCHANGED <<jMode, jLimit, jSuiteLen, jJury, notJudge>>

\* An iteration that fails with an error (a file cannot be opened, the
\* sandbox cannot start the child, the daemon thread failed): `?` returns
\* it.  In interactive mode only `executor.before` can fail so.
ExecuteError ==
    /\ jPc = "loop" /\ jIdx < jSuiteLen
    /\ jPc' = "error"
    /\ UNCHANGED <<jMode, jLimit, jSuiteLen, jIdx, jResult, jJury, notJudge>>

\* The for loop is exhausted: Ok(res).
ExecuteReturn ==
    /\ jPc = "loop" /\ jIdx = jSuiteLen
    /\ jPc' = "done"
    /\ UNCHANGED <<jMode, jLimit, jSuiteLen, jIdx, jResult, jJury, notJudge>>

JudgeNext ==
    \/ ExecuteStd
    \/ ExecuteSpj
    \/ ExecuteInteractive
    \/ ExecuteError
    \/ ExecuteReturn

(***************************************************************************)
(* The sandbox monitor daemon (sandbox/src/daemon.rs) with the child it    *)
(* monitors and the caller that holds the Process handle.                  *)
(***************************************************************************)
Max(a, b) == IF a >= b THEN a ELSE b

\* Option<T> is the set {} (None) or {v} (Some(v)).
LimitOption == {{}} \cup {{l} : l \in 1..MaxLimit}

\* sandbox::ProcessResourceLimits
ProcessResourceLimits ==
    [cpu_time_limit : LimitOption, real_time_limit : LimitOption,
     memory_limit : LimitOption]

\* ProcessResourceLimits::empty
ProcessResourceLimits_empty ==
    [cpu_time_limit |-> {}, real_time_limit |-> {}, memory_limit |-> {}]

\* A start_parent that hands the daemon limits only when the record has one.
start_parent_by_limits(builder) ==
    IF builder.limits = ProcessResourceLimits_empty THEN {} ELSE {builder.limits}

\* ProcessBuilder::start_parent: the daemon limits handed to Process::attach.
start_parent(builder) ==
    IF builder.use_native_rlimit THEN {} ELSE {builder.limits}

\* judge::engine::JudgeEngineConfig, its jury limits.
JudgeEngineConfig ==
    [jury_cpu_time_limit : LimitOption, jury_real_time_limit : LimitOption,
     jury_memory_limit : LimitOption]

\* JudgeEngine::apply_jury_bdr_config, on the limits of the jury's builder.
apply_jury_bdr_config(config, limits) ==
    [cpu_time_limit |-> IF config.jury_cpu_time_limit = {}
                        THEN config.jury_cpu_time_limit
                        ELSE limits.cpu_time_limit,
     real_time_limit |-> IF config.jury_real_time_limit # {}
                         THEN config.jury_real_time_limit
                         ELSE limits.real_time_limit,
     memory_limit |-> IF config.jury_memory_limit # {}
                      THEN config.jury_memory_limit
                      ELSE limits.memory_limit]

\* An update that overwrites the receiver with the argument.
update_overwrite(self, other) == other

\* ProcessResourceUsage::update
update(self, other) ==
    Usage(Max(self.user_cpu_time, other.user_cpu_time),
          Max(self.kernel_cpu_time, other.kernel_cpu_time),
          Max(self.virtual_mem_size, other.virtual_mem_size),
          Max(self.resident_set_size, other.resident_set_size))

\* nix WaitStatus, as far as daemon_main tells the cases apart.
WaitStatus(k, a) == [kind |-> k, arg |-> a]
StillAlive == WaitStatus("StillAlive", 0)

\* Signals that end a child by themselves: a seccomp kill, the child's own
\* start-up failure signal, and a crash.
ChildSignals == {SIGSYS, SIGUSR1, SIGSEGV}

\* A daemon_check_limits that tests the real time limit before the cpu time limit.
daemon_check_limits_real_first(limits, usage, real_time_elapsed) ==
    IF \E l \in limits.real_time_limit : real_time_elapsed > l
    THEN {Status("RealTimeLimitExceeded", 0)}
    ELSE IF \E l \in limits.cpu_time_limit : cpu_time(usage) > l
    THEN {Status("CPUTimeLimitExceeded", 0)}
    ELSE IF \E l \in limits.memory_limit : usage.virtual_mem_size > l
    THEN {Status("MemoryLimitExceeded", 0)}
    ELSE {}

\* daemon_check_limits: the status of the first limit that is exceeded, in
\* the order cpu time, real time, memory; {} (None) when none is.
daemon_check_limits(limits, usage, real_time_elapsed) ==
    IF \E l \in limits.cpu_time_limit : cpu_time(usage) > l
    THEN {Status("CPUTimeLimitExceeded", 0)}
    ELSE IF \E l \in limits.real_time_limit : real_time_elapsed > l
    THEN {Status("RealTimeLimitExceeded", 0)}
    ELSE IF \E l \in limits.memory_limit : usage.virtual_mem_size > l
    THEN {Status("MemoryLimitExceeded", 0)}
    ELSE {}

\* `*old.as_ref().unwrap()`: the overall usage in the cell after a sample.
Process_rusage_of(context_rusage) == CHOOSE usage \in context_rusage : TRUE

\* daemon_update_rusage: the overall usage after the current sample.
daemon_update_rusage(old, current) ==
    IF old = {} THEN current ELSE update(CHOOSE o \in old : TRUE, current)

\* The match on the wait status in daemon_main: Ok(status) or Err.
DaemonOk(status) == [ok |-> TRUE, status |-> status, error |-> "None"]
DaemonErr == [ok |-> FALSE, status |-> NotExited, error |-> "Sys"]

\* Err(Error::from(ErrorKind::ChildStartupFailed))
ChildStartupFailed == [DaemonErr EXCEPT !.error = "ChildStartupFailed"]

\* A translation that takes every signal for a plain kill.
wait_status_result_plain(ws) ==
    IF ws.kind = "Exited" THEN DaemonOk(Status("Normal", ws.arg))
    ELSE DaemonOk(Status("KilledBySignal", ws.arg))

\* daemon_main: the match on the wait status of a terminated child.

wait_status_result(ws) ==
    CASE ws.kind = "Exited" -> DaemonOk(Status("Normal", ws.arg))
      [] ws.kind = "Signaled" /\ ws.arg = SIGSYS -> DaemonOk(Status("BannedSyscall", 0))
      [] ws.kind = "Signaled" /\ ws.arg = SIGUSR1 -> ChildStartupFailed
      [] OTHER -> DaemonOk(Status("KilledBySignal", ws.arg))

\* A closure that swallows a daemon_main error instead of panicking.
start_outcome_swallow(result) == "ok"

\* The closure of daemon::start: a daemon_main error panics the thread, a
\* status is stored into context.status.
start_outcome(result) == IF result.ok THEN "ok" ELSE "panicked"

start_status(result, cell) == IF result.ok THEN result.status ELSE cell

\* A guard whose drop never kills.
WaitPidGuard_drop_forget(kill) == FALSE

\* Drop for WaitPidGuard: SIGKILL goes to the child unless the guard was released.
WaitPidGuard_drop(kill) == kill

DaemonIdle ==
    /\ dJuryConfig = {}
    /\ dBuilder = [use_native_rlimit |-> FALSE, limits |-> ProcessResourceLimits_empty]
    /\ dLimits = {}
    /\ cState = "reaped"
    /\ cTerm = StillAlive
    /\ cUsage = ProcessResourceUsage_new
    /\ dElapsed = 0
    /\ dPc = "idle"
    /\ dKill = FALSE
    /\ dKillSent = FALSE
    /\ dSample = {}
    /\ dStatus = NotExited
    /\ dRusage = {}
    /\ dOutcome = "idle"
    /\ dResult = {}
    /\ hPc = "idle"
    /\ hRead = {}

\* Process::attach: the child has been forked and the daemon thread started
\* with a fresh context and a fresh wait guard.  The builder is any builder,
\* or the one JudgeEngine::judge makes for a jury: ExecutionInfo::build and
\* apply_jury_bdr_config under the engine's configuration.
DaemonInit ==
    /\ dBuilder \in [use_native_rlimit : BOOLEAN, limits : ProcessResourceLimits]
    /\ dJuryConfig \in
         {{}} \cup {{c} : c \in {c \in JudgeEngineConfig :
                                  dBuilder = [use_native_rlimit |-> FALSE,
                                              limits |-> apply_jury_bdr_config(
                                                  c, ProcessResourceLimits_empty)]}}
    /\ dLimits = start_parent(dBuilder)
    /\ cState = "running"
    /\ cTerm = StillAlive
    /\ cUsage = ProcessResourceUsage_new
    /\ dElapsed = 0
    /\ dPc = "wait"
    /\ dKill = TRUE
    /\ dKillSent = FALSE
    /\ dSample = {}
    /\ dStatus = NotExited
    /\ dRusage = {}
    /\ dOutcome = "running"
    /\ dResult = {}
    /\ hPc = "attached"
    /\ hRead = {}

has_daemon_limits == dLimits # {}

(* The child and the clock. *)

\* The child consumes a tick of cpu time in user or in kernel mode.
ChildRun ==
    /\ cState = "running" /\ cpu_time(cUsage) < MaxCpu
    /\ \/ cUsage' = [cUsage EXCEPT !.user_cpu_time = @ + 1]
       \/ cUsage' = [cUsage EXCEPT !.kernel_cpu_time = @ + 1]
    /\ UNCHANGED <<dJuryConfig, dBuilder,
                   dLimits, cState, cTerm, dElapsed, dPc, dKill, dKillSent, dSample,
                   dStatus, dRusage, dOutcome, dResult, hPc, hRead, notDaemon>>

\* The child maps or unmaps memory, or pages of it come in or go out:
\* vsize and rss of its stat are numbers of their own.
ChildMem ==
    /\ cState = "running"
    /\ \E vsize, rss \in 0..MaxMem :
          /\ <<vsize, rss>> # <<cUsage.virtual_mem_size, cUsage.resident_set_size>>
          /\ cUsage' = [cUsage EXCEPT !.virtual_mem_size = vsize,
                                      !.resident_set_size = rss]
    /\ UNCHANGED <<dJuryConfig, dBuilder,
                   dLimits, cState, cTerm, dElapsed, dPc, dKill, dKillSent, dSample,
                   dStatus, dRusage, dOutcome, dResult, hPc, hRead, notDaemon>>

\* The child exits by itself, or is ended by a signal; its memory is gone.
ChildTerminate ==
    /\ cState = "running"
    /\ cState' = "zombie"
    /\ \/ \E c \in ExitCodes : cTerm' = WaitStatus("Exited", c)
       \/ \E s \in ChildSignals : cTerm' = WaitStatus("Signaled", s)
    /\ cUsage' = [cUsage EXCEPT !.virtual_mem_size = 0, !.resident_set_size = 0]
    /\ UNCHANGED <<dJuryConfig, dBuilder,
                   dLimits, dElapsed, dPc, dKill, dKillSent, dSample,
                   dStatus, dRusage, dOutcome, dResult, hPc, hRead, notDaemon>>

(* The daemon thread. *)

\* daemon_main returns `result` with the wait guard armed or released.
DaemonReturn(result, kill) ==
    /\ dPc' = "drop"
    /\ dKill' = kill
    /\ dResult' = {result}

\* wait_guard.wait(wait_flag) reports the child's termination: the guard is
\* released, the child reaped and the wait status translated.
DaemonWaitExited ==
    /\ dPc = "wait" /\ cState = "zombie"
    /\ cState' = "reaped"
    /\ DaemonReturn(wait_status_result(cTerm), FALSE)
    /\ UNCHANGED <<dJuryConfig, dBuilder, dLimits, cTerm, cUsage, dElapsed,
                   dKillSent, dSample, dStatus, dRusage, dOutcome, hPc, hRead,
                   notDaemon>>

\* waitpid with WNOHANG finds the child still running (polling mode only:
\* without the flag the call blocks until the child terminates).
DaemonWaitAlive ==
    /\ dPc = "wait" /\ cState = "running" /\ has_daemon_limits
    /\ dPc' = "sample"
    /\ UNCHANGED <<dJuryConfig, dBuilder,
                   dLimits, cState, cTerm, cUsage, dElapsed, dKill, dKillSent, dSample,
                   dStatus, dRusage, dOutcome, dResult, hPc, hRead, notDaemon>>

\* waitpid fails (EINTR, ECHILD): `?` returns the error with the guard armed.
DaemonWaitError ==
    /\ dPc = "wait"
    /\ DaemonReturn(DaemonErr, dKill)
    /\ UNCHANGED <<dJuryConfig, dBuilder, dLimits, cState, cTerm, cUsage, dElapsed,
                   dKillSent, dSample, dStatus, dRusage, dOutcome, hPc, hRead,
                   notDaemon>>

\* daemon_update_rusage under the mutex of context.rusage: the child's
\* figures as they are now go into the overall usage.
DaemonSample ==
    /\ dPc = "sample"
    /\ LET overall == daemon_update_rusage(dRusage, cUsage)
       IN /\ dRusage' = {overall}
          /\ dSample' = {[usage |-> overall, elapsed |-> {}]}
    /\ dPc' = "check"
    /\ UNCHANGED <<dJuryConfig, dBuilder, dLimits, cState, cTerm, cUsage, dElapsed,
                   dKill, dKillSent, dStatus, dOutcome, dResult, hPc, hRead,
                   notDaemon>>

\* ProcessResourceUsage::usage_of fails (/proc/<pid>/stat cannot be read).
DaemonSampleError ==
    /\ dPc = "sample"
    /\ DaemonReturn(DaemonErr, dKill)
    /\ UNCHANGED <<dJuryConfig, dBuilder, dLimits, cState, cTerm, cUsage, dElapsed,
                   dKillSent, dSample, dStatus, dRusage, dOutcome, hPc, hRead,
                   notDaemon>>

\* daemon_check_limits on the overall usage and the reading of
\* timer.elapsed().unwrap_or_default(): the timer is a SystemTime, so a
\* reading may be less than the one before it, and is zero when the wall
\* clock is behind the timer's start. A tripped limit returns its status,
\* otherwise the thread sleeps WAIT_INTERVAL and waits again.
DaemonCheck(real_time_elapsed) ==
    /\ dPc = "check"
    /\ dElapsed' = real_time_elapsed
    /\ LET overall == Process_rusage_of(dRusage)
           limits == CHOOSE l \in dLimits : TRUE
           tripped == daemon_check_limits(limits, overall, real_time_elapsed)
       IN /\ dSample' = {[usage |-> overall, elapsed |-> {real_time_elapsed}]}
          /\ IF tripped # {}
             THEN DaemonReturn(DaemonOk(CHOOSE st \in tripped : TRUE), dKill)
             ELSE /\ dPc' = "wait"
                  /\ UNCHANGED <<dKill, dResult>>
    /\ UNCHANGED <<dJuryConfig, dBuilder, dLimits, cState, cTerm, cUsage,
                   dKillSent, dStatus, dRusage, dOutcome, hPc, hRead, notDaemon>>

\* daemon_main has returned and wait_guard goes out of scope: an armed guard
\* sends SIGKILL, which ends a child that is running and leaves one that has
\* terminated as it is.
DaemonDropGuard ==
    /\ dPc = "drop"
    /\ dKillSent' = WaitPidGuard_drop(dKill)
    /\ IF WaitPidGuard_drop(dKill) /\ cState = "running"
       THEN /\ cState' = "zombie"
            /\ cTerm' = WaitStatus("Signaled", SIGKILL)
            /\ cUsage' = [cUsage EXCEPT !.virtual_mem_size = 0, !.resident_set_size = 0]
       ELSE UNCHANGED <<cState, cTerm, cUsage>>
    /\ dPc' = "store"
    /\ UNCHANGED <<dJuryConfig, dBuilder, dLimits, dElapsed, dKill, dSample,
                   dStatus, dRusage, dOutcome, dResult, hPc, hRead, notDaemon>>

\* The closure of daemon::start: a status is stored into context.status
\* under its mutex, an error panics the thread.
DaemonStore ==
    /\ dPc = "store"
    /\ \E result \in dResult :
         /\ dOutcome' = start_outcome(result)
         /\ dStatus' = start_status(result, dStatus)
    /\ dPc' = "finished"
    /\ UNCHANGED <<dJuryConfig, dBuilder, dLimits, cState, cTerm, cUsage, dElapsed,
                   dKill, dKillSent, dSample, dRusage, dResult, hPc, hRead,
                   notDaemon>>

\* A Process::rusage that answers zero whatever the context holds.
Process_rusage_zero(context_rusage) == ProcessResourceUsage_new

\* Process::rusage: context.rusage, or ProcessResourceUsage::new() while it
\* is None.  Process::exit_status is context.status as it stands.
Process_rusage(context_rusage) ==
    IF context_rusage = {} THEN ProcessResourceUsage_new
    ELSE CHOOSE usage \in context_rusage : TRUE

(* The caller of the handle, as every caller in the repository is written: *)
(* `handle.wait_for_exit()?` and then `handle.exit_status()`.               *)

\* Process::wait_for_exit: joins the daemon thread; a panicked thread gives
\* Err(DaemonFailed).
wait_for_exit ==
    /\ hPc = "attached" /\ dOutcome # "running"
    /\ hPc' = IF dOutcome = "ok" THEN "joined_ok" ELSE "joined_err"
    /\ UNCHANGED <<dJuryConfig, dBuilder,
                   dLimits, cState, cTerm, cUsage, dElapsed, dPc, dKill, dKillSent,
                   dSample, dStatus, dRusage, dOutcome, dResult, hRead, notDaemon>>

\* Process::exit_status, read by the caller after wait_for_exit returned Ok.
exit_status ==
    /\ hPc = "joined_ok"
    /\ hRead' = {dStatus}
    /\ hPc' = "read"
    /\ UNCHANGED <<dJuryConfig, dBuilder,
                   dLimits, cState, cTerm, cUsage, dElapsed, dPc, dKill, dKillSent,
                   dSample, dStatus, dRusage, dOutcome, dResult, notDaemon>>

DaemonNext ==
    \/ ChildRun
    \/ ChildMem
    \/ ChildTerminate
    \/ DaemonWaitExited
    \/ DaemonWaitAlive
    \/ DaemonWaitError
    \/ DaemonSample
    \/ DaemonSampleError
    \/ \E real_time_elapsed \in 0..MaxTime : DaemonCheck(real_time_elapsed)
    \/ DaemonDropGuard
    \/ DaemonStore
    \/ wait_for_exit
    \/ exit_status

(***************************************************************************)
(* The problem store: worker threads calling ProblemStore::get, whose body *)
(* runs under KeyLock::lock_and_execute with the problem's id as the key.  *)
(***************************************************************************)
Threads == 1..NumThreads

\* The ObjectIds of the problems the dispatcher knows.
ProblemIds == {1, 2}

\* The Arc<Mutex<()>> values: every call and every map entry holds at most one.
Mutexes == 1..(NumThreads + Cardinality(ProblemIds))

\* judge::CompilationResult::succeed and ::fail
CompilationResult_succeed ==
    [succeeded |-> TRUE, compiler_out |-> {}, output_file |-> {"out"}]
CompilationResult_fail ==
    [succeeded |-> FALSE, compiler_out |-> {"msg"}, output_file |-> {}]

\* restful::entities::ProblemInfo as the dispatcher serves it.
ProblemInfo(id, mode, ts) ==
    [id |-> id, judge_mode |-> mode, jury_src |-> <<"s", "r", "c">>,
     jury_lang |-> [identifier |-> "cpp", dialect |-> "gnu", version |-> "11"],
     timestamp |-> ts]

\* A conversion that keeps the jury source and language whatever the mode.
ProblemMetadata_from_with_jury(pi) ==
    [id |-> pi.id,
     judge_mode |-> pi.judge_mode,
     jury_src |-> {pi.jury_src},
     jury_lang |-> {pi.jury_lang},
     jury_exec_path |-> {},
     timestamp |-> pi.timestamp]

\* impl From<ProblemInfo> for ProblemMetadata
ProblemMetadata_from(pi) ==
    [id |-> pi.id,
     judge_mode |-> pi.judge_mode,
     jury_src |-> IF pi.judge_mode = "Standard" THEN {} ELSE {pi.jury_src},
     jury_lang |-> IF pi.judge_mode = "Standard" THEN {} ELSE {pi.jury_lang},
     jury_exec_path |-> {},
     timestamp |-> pi.timestamp]

\* ProblemMetadata::has_jury
has_jury(m) == m.judge_mode \in {"SpecialJudge", "Interactive"}

\* utils::bitcast::<i64, u64>
bitcast(i) == IF i < 0 THEN i + 2^64 ELSE i

\* `format!("'{}'", s)`: the text put into the statement for a string.
sql_quote(s) == <<"'">> \o s \o <<"'">>

\* The string SQLite reads from a literal that is followed by nothing: two
\* quotes in a row stand for one quote, a single quote ends the literal.
\* {} when the literal does not end with the text, so that the statement
\* is not the one intended and fails.
RECURSIVE sql_literal_value(_, _, _)
sql_literal_value(text, i, acc) ==
    IF i > Len(text) THEN {}
    ELSE IF text[i] # "'" THEN sql_literal_value(text, i + 1, Append(acc, text[i]))
    ELSE IF i < Len(text) /\ text[i + 1] = "'"
         THEN sql_literal_value(text, i + 2, Append(acc, "'"))
    ELSE IF i = Len(text) THEN {acc}
    ELSE {}

\* What the problems table holds of a string written by save.
sql_stored(s) == sql_literal_value(sql_quote(s), 2, <<>>)

\* Whether the statement that save builds is executed.
save_executes(m) == \A s \in m.jury_src : sql_stored(s) # {}

\* ProblemMetadata::save: the row that INSERT OR REPLACE writes.  A NULL
\* column is {}.  The identifiers and paths of the model hold no quote.
save(m) ==
    [id |-> m.id,
     judge_mode |-> CASE m.judge_mode = "Standard" -> 0
                      [] m.judge_mode = "SpecialJudge" -> 1
                      [] m.judge_mode = "Interactive" -> 2,
     jury_src |-> UNION {sql_stored(s) : s \in m.jury_src},
     jury_lang_id |-> {l.identifier : l \in m.jury_lang},
     jury_lang_dialect |-> {l.dialect : l \in m.jury_lang},
     jury_lang_version |-> {l.version : l \in m.jury_lang},
     jury_exec_path |-> m.jury_exec_path,
     timestamp |-> m.timestamp]

\* ProblemMetadata::from_db_row: {} (None) or {metadata}.
from_db_row(row) ==
    IF row.judge_mode \notin 0..2 THEN {}
    ELSE {[id |-> row.id,
           judge_mode |-> CASE row.judge_mode = 0 -> "Standard"
                            [] row.judge_mode = 1 -> "SpecialJudge"
                            [] row.judge_mode = 2 -> "Interactive",
           jury_src |-> row.jury_src,
           jury_lang |-> {[identifier |-> i, dialect |-> d, version |-> v] :
                          <<i, d, v>> \in row.jury_lang_id \X row.jury_lang_dialect
                                          \X row.jury_lang_version},
           jury_exec_path |-> row.jury_exec_path,
           timestamp |-> bitcast(row.timestamp)]}

get_timestamp_none(rows) == {}

\* ProblemStore::get_timestamp over the rows with the id: {} or {timestamp}.
get_timestamp(rows) == {bitcast(r.timestamp) : r \in rows}

\* ProblemStore::get_cached over the rows with the id: {} or {metadata}.
get_cached(rows) == UNION {from_db_row(r) : r \in rows}

is_fresh_strict(timestamp, remote_ts) == timestamp > remote_ts

\* `timestamp >= remote_ts` in ProblemStore::get
is_fresh(timestamp, remote_ts) == timestamp >= remote_ts

\* ProblemStore::compile_jury on the fork server's answer: {} or {temp path}.
compile_jury(result) ==
    IF ~result.succeeded THEN {}
    ELSE IF result.compiler_out = {} THEN {}
    ELSE result.output_file

\* What a get call returns.
StoreOk(m) == [ok |-> TRUE, value |-> {m}]
StoreErr == [ok |-> FALSE, value |-> {}]

entry_mutex_own(keys, key, fresh) == fresh

\* lock_and_execute: the mutex the caller clones, the entry's one, or a new
\* one when the key is not in the map.
entry_mutex(keys, key, fresh) ==
    IF key \in DOMAIN keys THEN keys[key].mtx ELSE fresh

StoreIdle ==
    /\ kKeys = [k \in {} |-> 0]
    /\ kLocked = {}
    /\ sPc = [t \in Threads |-> "idle"]
    /\ sKey = [t \in Threads |-> 1]
    /\ sMtx = [t \in Threads |-> 0]
    /\ sMeta = [t \in Threads |-> {}]
    /\ sSeen = [t \in Threads |-> [ts |-> {}, remote |-> {}, jury |-> {}]]
    /\ sDid = [t \in Threads |-> {}]
    /\ sRet = [t \in Threads |-> {}]
    /\ sCalls = 0
    /\ rInfo = [id \in ProblemIds |-> ProblemInfo(id, "Standard", 0)]
    /\ db = [id \in ProblemIds |-> {}]
    /\ nReq = [id \in ProblemIds |-> [ts |-> 0, info |-> 0]]

\* ProblemStore::new on an empty database, KeyLock::new, and the problems
\* as the dispatcher has them.
StoreInit ==
    /\ kKeys = [k \in {} |-> 0]
    /\ kLocked = {}
    /\ sPc = [t \in Threads |-> "enter"]
    /\ sKey = [t \in Threads |-> 1]
    /\ sMtx = [t \in Threads |-> 0]
    /\ sMeta = [t \in Threads |-> {}]
    /\ sSeen = [t \in Threads |-> [ts |-> {}, remote |-> {}, jury |-> {}]]
    /\ sDid = [t \in Threads |-> {}]
    /\ sRet = [t \in Threads |-> {}]
    /\ sCalls = 0
    /\ rInfo = [id \in ProblemIds |->
                  ProblemInfo(id, IF id = 1 THEN "Standard" ELSE "SpecialJudge", 0)]
    /\ db = [id \in ProblemIds |-> {}]
    /\ nReq = [id \in ProblemIds |-> [ts |-> 0, info |-> 0]]

\* lock_and_execute, first block: under the map's mutex the caller adds the
\* key if it is not active, counts itself in and clones the entry's mutex.
KLEnter(t, key) ==
    /\ sPc[t] = "enter" /\ sCalls < MaxCalls
    /\ LET used == {kKeys[k].mtx : k \in DOMAIN kKeys} \cup {sMtx[u] : u \in Threads}
           fresh == CHOOSE m \in Mutexes \ used : \A o \in Mutexes \ used : m <= o
       IN /\ kKeys' = [k \in DOMAIN kKeys \cup {key} |->
                         IF k # key THEN kKeys[k]
                         ELSE IF key \in DOMAIN kKeys
                              THEN [kKeys[key] EXCEPT !.count = @ + 1]
                              ELSE [count |-> 1, mtx |-> fresh]]
          /\ sMtx' = [sMtx EXCEPT ![t] = entry_mutex(kKeys, key, fresh)]
    /\ sKey' = [sKey EXCEPT ![t] = key]
    /\ sPc' = [sPc EXCEPT ![t] = "lock"]
    /\ sMeta' = [sMeta EXCEPT ![t] = {}]
    /\ sSeen' = [sSeen EXCEPT ![t] = [ts |-> {}, remote |-> {}, jury |-> {}]]
    /\ sDid' = [sDid EXCEPT ![t] =
                   (IF db[key] = {} THEN {"absent"} ELSE {})
                   \cup (IF key \in DOMAIN kKeys /\ kKeys[key].count + 1 = NumThreads
                         THEN {"together"} ELSE {})]
    /\ sRet' = [sRet EXCEPT ![t] = {}]
    /\ sCalls' = sCalls + 1
    /\ UNCHANGED <<kLocked, rInfo, db, nReq, notStore>>

\* lock_and_execute: `mtx.lock()`, which waits while the mutex is locked.
KLLock(t) ==
    /\ sPc[t] = "lock" /\ sMtx[t] \notin kLocked
    /\ kLocked' = kLocked \cup {sMtx[t]}
    /\ sPc' = [sPc EXCEPT ![t] = "check"]
    /\ UNCHANGED <<kKeys, sKey, sMtx, sMeta, sSeen, sDid, sRet, sCalls, rInfo, db,
                   nReq, notStore>>

\* ProblemStore::get, the cache check: the cached timestamp, and when there
\* is one the dispatcher's timestamp and then the cached row.
GetCheck(t) ==
    /\ sPc[t] = "check"
    /\ LET id == sKey[t]
           timestamp == get_timestamp(db[id])
       IN IF timestamp = {}
          THEN /\ sPc' = [sPc EXCEPT ![t] = "fetch"]
               /\ UNCHANGED <<sSeen, sDid, sRet, nReq>>
          ELSE \E ok \in BOOLEAN :
                 LET remote_ts == rInfo[id].timestamp
                     hit == /\ ok
                            /\ \E ts \in timestamp : is_fresh(ts, remote_ts)
                            /\ get_cached(db[id]) # {}
                 IN /\ nReq' = [nReq EXCEPT ![id].ts = @ + 1]
                    /\ sSeen' = [sSeen EXCEPT ![t] =
                                   [ts |-> timestamp,
                                    remote |-> IF ok THEN {remote_ts} ELSE {},
                                    jury |-> {}]]
                    /\ sRet' = [sRet EXCEPT ![t] =
                                  IF ~ok THEN {StoreErr}
                                  ELSE IF hit
                                       THEN {StoreOk(m) : m \in get_cached(db[id])}
                                       ELSE {}]
                    /\ sDid' = [sDid EXCEPT ![t] =
                                  @ \cup {"timestamp"}
                                    \cup (IF hit THEN {"cached"} ELSE {})
                                    \cup (IF ok /\ ~hit THEN {"outdated"} ELSE {})]
                    /\ sPc' = [sPc EXCEPT ![t] =
                                 IF ~ok \/ hit THEN "unlock" ELSE "fetch"]
    /\ UNCHANGED <<kKeys, kLocked, sKey, sMtx, sMeta, sCalls, rInfo, db, notStore>>

\* ProblemStore::get: `self.rest.get_problem_info(id)?.into()`.
GetFetch(t) ==
    /\ sPc[t] = "fetch"
    /\ \E ok \in BOOLEAN :
         LET id == sKey[t]
             metadata == ProblemMetadata_from(rInfo[id])
         IN /\ nReq' = [nReq EXCEPT ![id].info = @ + 1]
            /\ sDid' = [sDid EXCEPT ![t] = @ \cup {"fetch"}]
            /\ sMeta' = [sMeta EXCEPT ![t] = IF ok THEN {metadata} ELSE {}]
            /\ sRet' = [sRet EXCEPT ![t] = IF ok THEN {} ELSE {StoreErr}]
            /\ sPc' = [sPc EXCEPT ![t] =
                         IF ~ok THEN "unlock"
                         ELSE IF has_jury(metadata) THEN "compile" ELSE "save"]
    /\ UNCHANGED <<kKeys, kLocked, sKey, sMtx, sSeen, sCalls, rInfo, db, notStore>>

\* ProblemStore::get: compile_jury through the fork server and the copy of
\* the executable into the jury directory under the problem's id.
GetCompile(t) ==
    /\ sPc[t] = "compile"
    /\ \E answer \in {{}, {CompilationResult_succeed}, {CompilationResult_fail}},
          copied \in BOOLEAN :
         LET temp == UNION {compile_jury(r) : r \in answer}
             ok == answer # {} /\ (temp = {} \/ copied)
         IN /\ sDid' = [sDid EXCEPT ![t] = @ \cup {"compile"}]
            /\ sMeta' = [sMeta EXCEPT ![t] =
                           {[m EXCEPT !.jury_exec_path =
                               IF temp # {} /\ copied THEN {sKey[t]} ELSE @] : m \in @}]
            /\ sRet' = [sRet EXCEPT ![t] = IF ok THEN {} ELSE {StoreErr}]
            /\ sPc' = [sPc EXCEPT ![t] = IF ok THEN "save" ELSE "unlock"]
            /\ sSeen' = [sSeen EXCEPT ![t].jury = answer]
    /\ UNCHANGED <<kKeys, kLocked, sKey, sMtx, sCalls, rInfo, db, nReq,
                   notStore>>

\* ProblemStore::get: `metadata.save(..)?` and `Ok(metadata)`.
GetSave(t) ==
    /\ sPc[t] = "save"
    /\ \E ok \in BOOLEAN :
         /\ db' = [db EXCEPT ![sKey[t]] = IF ok THEN {save(m) : m \in sMeta[t]} ELSE @]
         /\ sDid' = [sDid EXCEPT ![t] = IF ok THEN @ \cup {"save"} ELSE @]
         /\ sRet' = [sRet EXCEPT ![t] =
                       IF ok THEN {StoreOk(m) : m \in sMeta[t]} ELSE {StoreErr}]
    /\ sPc' = [sPc EXCEPT ![t] = "unlock"]
    /\ sSeen' = [sSeen EXCEPT ![t].jury = {}]
    /\ UNCHANGED <<kKeys, kLocked, sKey, sMtx, sMeta, sCalls, rInfo, nReq,
                   notStore>>

\* lock_and_execute: the guard `_lock` goes out of scope.
KLUnlock(t) ==
    /\ sPc[t] = "unlock"
    /\ kLocked' = kLocked \ {sMtx[t]}
    /\ sPc' = [sPc EXCEPT ![t] = "exit"]
    /\ sMeta' = [sMeta EXCEPT ![t] = {}]
    /\ sSeen' = [sSeen EXCEPT ![t] = [ts |-> {}, remote |-> {}, jury |-> {}]]
    /\ UNCHANGED <<kKeys, sKey, sMtx, sDid, sRet, sCalls, rInfo, db,
                   nReq, notStore>>

\* A last block that counts the caller out and leaves the entry in the map.
KLExit_keeps_entry(t) ==
    /\ sPc[t] = "exit"
    /\ kKeys' = [kKeys EXCEPT ![sKey[t]].count = @ - 1]
    /\ sMtx' = [sMtx EXCEPT ![t] = 0]
    /\ sPc' = [sPc EXCEPT ![t] = "enter"]
    /\ UNCHANGED <<kLocked, sKey, sMeta, sSeen, sDid, sRet, sCalls, rInfo, db, nReq,
                   notStore>>

\* lock_and_execute, last block: under the map's mutex the caller counts
\* itself out and removes the entry when the count is 0.
KLExit(t) ==
    /\ sPc[t] = "exit"
    /\ LET key == sKey[t]
           count == kKeys[key].count - 1
       IN kKeys' = [k \in (IF count = 0 THEN DOMAIN kKeys \ {key} ELSE DOMAIN kKeys) |->
                      IF k = key THEN [kKeys[k] EXCEPT !.count = count] ELSE kKeys[k]]
    /\ sMtx' = [sMtx EXCEPT ![t] = 0]
    /\ sPc' = [sPc EXCEPT ![t] = "enter"]
    /\ UNCHANGED <<kLocked, sKey, sMeta, sSeen, sDid, sRet, sCalls, rInfo, db, nReq,
                   notStore>>

\* The dispatcher: a problem is edited, which gives it a later timestamp.
RemoteUpdate(id) ==
    /\ rInfo[id].timestamp < MaxTs
    /\ rInfo' = [rInfo EXCEPT ![id] = ProblemInfo(id, @.judge_mode, @.timestamp + 1)]
    /\ UNCHANGED <<kKeys, kLocked, sPc, sKey, sMtx, sMeta, sSeen, sDid, sRet, sCalls,
                   db, nReq, notStore>>

StoreNext ==
    \/ \E t \in Threads, key \in ProblemIds : KLEnter(t, key)
    \/ \E t \in Threads : KLLock(t)
    \/ \E t \in Threads : GetCheck(t)
    \/ \E t \in Threads : GetFetch(t)
    \/ \E t \in Threads : GetCompile(t)
    \/ \E t \in Threads : GetSave(t)
    \/ \E t \in Threads : KLUnlock(t)
    \/ \E t \in Threads : KLExit(t)
    \/ \E id \in ProblemIds : RemoteUpdate(id)

(***************************************************************************)
(* The fork server: worker threads calling ForkServerClient::execute_cmd   *)
(* and the single-threaded loop of fork_server_main at the other end of    *)
(* the two pipes.  A command carries the number of its write to the pipe,  *)
(* and a result carries the number of the command it answers.              *)
(***************************************************************************)
CommandKinds == {"Compile", "Judge"}

socket_lock_free_always(holder) == TRUE

\* `self.socket.lock()` returns only while no thread holds the mutex.
socket_lock_free(holder) == holder = 0

handle_cmd_as_judge(cmd) == [kind |-> "Judge", of |-> cmd.id]

\* CommandHandler::handle_cmd when the engine returns Ok: a Compile command
\* gives CommandResult::Compile, a Judge command CommandResult::Judge.
handle_cmd(cmd) == [kind |-> cmd.kind, of |-> cmd.id]

ForkIdle ==
    /\ fPc = [t \in Threads |-> "stopped"]
    /\ fCmd = [t \in Threads |-> [kind |-> "Compile", id |-> 0]]
    /\ fRes = [t \in Threads |-> {}]
    /\ fLock = 0
    /\ fSent = 0
    /\ toServer = <<>>
    /\ toClient = <<>>
    /\ srvPc = "exited"
    /\ srvCmd = {}
    /\ srvLog = <<>>

\* start_fork_server: the pipes are empty, the server is in its loop and
\* no worker thread has called yet.
ForkInit ==
    /\ fPc = [t \in Threads |-> "idle"]
    /\ fCmd = [t \in Threads |-> [kind |-> "Compile", id |-> 0]]
    /\ fRes = [t \in Threads |-> {}]
    /\ fLock = 0
    /\ fSent = 0
    /\ toServer = <<>>
    /\ toClient = <<>>
    /\ srvPc = "receive"
    /\ srvCmd = {}
    /\ srvLog = <<>>

\* A worker thread calls execute_cmd with a Compile or a Judge command.
ExecCall(t, kind) ==
    /\ fPc[t] = "idle"
    /\ Cardinality({u \in Threads : fPc[u] # "idle"}) + fSent < MaxCmds
    /\ fPc' = [fPc EXCEPT ![t] = "lock"]
    /\ fCmd' = [fCmd EXCEPT ![t] = [kind |-> kind, id |-> 0]]
    /\ fRes' = [fRes EXCEPT ![t] = {}]
    /\ UNCHANGED <<fLock, fSent, toServer, toClient, srvPc, srvCmd, srvLog, notFork>>

\* execute_cmd: `self.socket.lock()`.
ExecLock(t) ==
    /\ fPc[t] = "lock" /\ socket_lock_free(fLock)
    /\ fLock' = t
    /\ fPc' = [fPc EXCEPT ![t] = "send"]
    /\ UNCHANGED <<fCmd, fRes, fSent, toServer, toClient, srvPc, srvCmd, srvLog,
                   notFork>>

\* execute_cmd: `lock.send(cmd)?`.  The write fails when the fork server
\* has exited; the guard is dropped on the early return.
ExecSend(t) ==
    /\ fPc[t] = "send"
    /\ IF srvPc = "exited"
       THEN /\ fRes' = [fRes EXCEPT ![t] = {[ok |-> FALSE, value |-> {}]}]
            /\ fPc' = [fPc EXCEPT ![t] = "idle"]
            /\ fLock' = IF fLock = t THEN 0 ELSE fLock
            /\ UNCHANGED <<fCmd, fSent, toServer>>
       ELSE /\ fCmd' = [fCmd EXCEPT ![t].id = fSent + 1]
            /\ toServer' = Append(toServer, fCmd'[t])
            /\ fSent' = fSent + 1
            /\ fPc' = [fPc EXCEPT ![t] = "receive"]
            /\ UNCHANGED <<fRes, fLock>>
    /\ UNCHANGED <<toClient, srvPc, srvCmd, srvLog, notFork>>

\* execute_cmd: `Ok(lock.receive()?)`.  The read blocks until a result is
\* in the pipe or the fork server has exited (end of file).
ExecReceive(t) ==
    /\ fPc[t] = "receive"
    /\ toClient # <<>> \/ srvPc = "exited"
    /\ IF toClient # <<>>
       THEN /\ fRes' = [fRes EXCEPT ![t] = {[ok |-> TRUE, value |-> {Head(toClient)}]}]
            /\ toClient' = Tail(toClient)
       ELSE /\ fRes' = [fRes EXCEPT ![t] = {[ok |-> FALSE, value |-> {}]}]
            /\ UNCHANGED toClient
    /\ fPc' = [fPc EXCEPT ![t] = "idle"]
    /\ fLock' = IF fLock = t THEN 0 ELSE fLock
    /\ UNCHANGED <<fCmd, fSent, toServer, srvPc, srvCmd, srvLog, notFork>>

\* fork_server_main: `socket.receive()?`.
ServerReceive ==
    /\ srvPc = "receive" /\ toServer # <<>>
    /\ srvCmd' = {Head(toServer)}
    /\ toServer' = Tail(toServer)
    /\ srvPc' = "handle"
    /\ UNCHANGED <<fPc, fCmd, fRes, fLock, fSent, toClient, srvLog, notFork>>

\* fork_server_main: `handler.handle_cmd(cmd)?` and `socket.send(&res)?`.
\* An Err of the engine ends the loop and with it the server process.
ServerReply ==
    /\ srvPc = "handle"
    /\ \E ok \in BOOLEAN :
         LET cmd == CHOOSE c \in srvCmd : TRUE
         IN /\ toClient' = IF ok THEN Append(toClient, handle_cmd(cmd)) ELSE toClient
            /\ srvLog' = IF ok THEN Append(srvLog, cmd.id) ELSE srvLog
            /\ srvPc' = IF ok THEN "receive" ELSE "exited"
    /\ srvCmd' = {}
    /\ UNCHANGED <<fPc, fCmd, fRes, fLock, fSent, toServer, notFork>>

ForkNext ==
    \/ \E t \in Threads, kind \in CommandKinds : ExecCall(t, kind)
    \/ \E t \in Threads : ExecLock(t)
    \/ \E t \in Threads : ExecSend(t)
    \/ \E t \in Threads : ExecReceive(t)
    \/ ServerReceive
    \/ ServerReply

(***************************************************************************)
(* A worker thread: worker_entry and handle_submission.                    *)
(***************************************************************************)
\* `let mut retry_count = 3`
RetryCount == 3

\* impl From<judge::Verdict> for the dispatcher's Verdict
Verdict_from(verdict) ==
    IF verdict = "BannedSystemCall" THEN "BadSystemCall" ELSE verdict

\* A failure constructor that keeps a test case in the result.
failure_with_test_case(message) ==
    [verdict |-> "JudgeFailed", compiler_message |-> message,
     test_cases |-> <<"JudgeFailed">>]

\* SubmissionJudgeResult::failure and ::compilation_failed
failure(message) ==
    [verdict |-> "JudgeFailed", compiler_message |-> message, test_cases |-> <<>>]
compilation_failed(message) == [failure(message) EXCEPT !.verdict = "CompilationFailed"]

\* impl From<judge::JudgeResult> for SubmissionJudgeResult; a test case is
\* kept as its verdict.
SubmissionJudgeResult_from(res) ==
    [verdict |-> Verdict_from(res.verdict),
     compiler_message |-> "",
     test_cases |-> [i \in DOMAIN res.test_suite |->
                       Verdict_from(res.test_suite[i].verdict)]]

\* An execute_compiler that takes every normal exit for a success.
execute_compiler_any_exit(status, stderr) ==
    IF status.kind = "Normal" THEN {CompilationResult_succeed}
    ELSE IF stderr = {} THEN {}
    ELSE {CompilationResult_fail}

\* JudgeEngine::execute_compiler once wait_for_exit has returned Ok and the
\* handle reads `exit_status` as `status`; `stderr` is what read_to_string gives of the
\* pipe ({} when it fails). {} is Err.
execute_compiler(status, stderr) ==
    IF status = Status("Normal", 0) THEN {CompilationResult_succeed}
    ELSE IF stderr = {} THEN {}
    ELSE {CompilationResult_fail}

\* What handle_submission comes to: "ok" (Ok(result)), "err" or "panic".
Handled(kind, value) == [kind |-> kind, value |-> value]

\* handle_submission, given what the problem store, the archive store and
\* the fork server's Compile and Judge calls return ({} is Err).
handle_submission(problem, archive, compile_result, judge_result) ==
    IF problem = {} \/ ~archive THEN Handled("err", {})
    ELSE IF \E p \in problem : has_jury(p) /\ p.jury_exec_path = {}
    THEN Handled("ok", {failure("Answer checker did not compiled successfully.")})
    ELSE IF compile_result = {} THEN Handled("err", {})
    ELSE IF \E c \in compile_result : ~c.succeeded
    THEN Handled("ok", {compilation_failed(m) :
                          m \in UNION {c.compiler_out : c \in compile_result}})
    ELSE IF \E c \in compile_result : c.compiler_out = {} THEN Handled("panic", {})
    ELSE IF judge_result = {} THEN Handled("err", {})
    ELSE Handled("ok", {SubmissionJudgeResult_from(r) : r \in judge_result})

WorkerIdle ==
    /\ wPc = "stopped"
    /\ wSub = 0
    /\ wResult = {}
    /\ wRetry = 0
    /\ wFetched = 0
    /\ wPatched = [s \in 1..MaxSubs |-> 0]
    /\ wProblem = {}
    /\ wHandled = "none"
    /\ wCompiler = {}
    /\ wCompiled = {}

\* std::thread::spawn(move || worker_entry(..))
WorkerInit ==
    /\ wPc = "poll"
    /\ wSub = 0
    /\ wResult = {}
    /\ wRetry = 0
    /\ wFetched = 0
    /\ wPatched = [s \in 1..MaxSubs |-> 0]
    /\ wProblem = {}
    /\ wHandled = "none"
    /\ wCompiler = {}
    /\ wCompiled = {}

\* worker_entry: `context.rest.get_submission()`; Ok(None) and Err sleep
\* and poll again.
GetSubmission ==
    /\ wPc = "poll"
    /\ \E got \in BOOLEAN :
         IF got /\ wFetched < MaxSubs
         THEN /\ wFetched' = wFetched + 1
              /\ wSub' = wFetched + 1
              /\ wPc' = "handle"
         ELSE UNCHANGED <<wFetched, wSub, wPc>>
    /\ UNCHANGED <<wResult, wRetry, wPatched, wProblem, wHandled, wCompiler,
                   wCompiled, notWorker>>

\* worker_entry: handle_submission and the match on its result.
HandleSubmission ==
    /\ wPc = "handle"
    /\ \E mode \in JudgeModes, cached \in BOOLEAN, archive \in BOOLEAN,
          jury \in {{}, {1}},
          compiler \in {{}} \cup {{st} : st \in TerminalStatus},
          stderr \in {{}, {"msg"}},
          judge_result \in {{}, {JudgeResult_new}}
                           \cup {{add_test_case_result(JudgeResult_new,
                                       [TestCaseResult_new EXCEPT !.verdict = v])} :
                                  v \in Verdict} :
         LET metadata == ProblemMetadata_from(ProblemInfo(1, mode, 0))
             problem == IF ~cached THEN {}
                        ELSE {[metadata EXCEPT !.jury_exec_path =
                                 IF has_jury(metadata) THEN jury ELSE {}]}
             \* the Compile call is made once the problem, the archive and
             \* the jury are there
             compiles == /\ problem # {}
                         /\ archive
                         /\ \A q \in problem : ~(has_jury(q) /\ q.jury_exec_path = {})
             compile_result == UNION {execute_compiler(st, stderr) : st \in compiler}
             handled == handle_submission(problem, archive, compile_result, judge_result)
         IN /\ wProblem' = problem
            /\ wCompiler' = IF compiles THEN compiler ELSE {}
            /\ wCompiled' = IF compiles THEN compile_result ELSE {}
            /\ wHandled' = handled.kind
            /\ IF handled.kind = "panic"
               THEN /\ wPc' = "panicked"
                    /\ UNCHANGED <<wResult, wRetry>>
               ELSE /\ wResult' = IF handled.kind = "ok" THEN handled.value
                                  ELSE {failure("")}
                    /\ wRetry' = RetryCount
                    /\ wPc' = "patch"
    /\ UNCHANGED <<wSub, wFetched, wPatched, notWorker>>

\* worker_entry: one `context.rest.patch_judge_result(..)` of the retry loop.
PatchJudgeResult ==
    /\ wPc = "patch"
    /\ wPatched' = [wPatched EXCEPT ![wSub] = @ + 1]
    /\ \E ok \in BOOLEAN :
         IF ok \/ wRetry = 1
         THEN /\ wPc' = "poll"
              /\ wSub' = 0
              /\ wResult' = {}
              /\ wProblem' = {}
              /\ wHandled' = "none"
              /\ wCompiler' = {}
              /\ wCompiled' = {}
              /\ wRetry' = IF ok THEN wRetry ELSE 0
         ELSE /\ wRetry' = wRetry - 1
              /\ UNCHANGED <<wPc, wSub, wResult, wProblem, wHandled, wCompiler,
                             wCompiled>>
    /\ UNCHANGED <<wFetched, notWorker>>

WorkerNext ==
    \/ GetSubmission
    \/ HandleSubmission
    \/ PatchJudgeResult

(***************************************************************************)
(* The archive store (driver/src/storage/archives.rs).  A path is a record *)
(* [parent, parts]: the directory it lies in ("" for none) and its file    *)
(* name split at the dots.                                                 *)
(***************************************************************************)
PathOf(parent, parts) == [parent |-> parent, parts |-> parts]

\* The names a zip entry may have.
EntryNames ==
    {PathOf(d, <<"tc1", e>>) : d \in {"", "subdir"}, e \in {"in", "ans"}}
    \cup {PathOf("", <<"a", "b", e>>) : e \in {"in", "ans"}}
    \cup {PathOf("", <<"readme", "txt">>), PathOf("", <<"subdir">>)}

\* The two files of a test case of the zips.
TestCaseFiles(parent, stem) ==
    {PathOf(parent, Append(stem, "in")), PathOf(parent, Append(stem, "ans"))}

\* The zips of whole test cases that a run downloads: none, one or two test
\* cases, the input file of each followed by its answer file.
Archives ==
    LET files(parent, stem) ==
            <<PathOf(parent, Append(stem, "in")), PathOf(parent, Append(stem, "ans"))>>
    IN {<<>>, files("", <<"tc1">>), files("", <<"a", "b">>), files("subdir", <<"tc1">>),
        files("", <<"tc1">>) \o files("", <<"a", "b">>),
        files("", <<"tc1">>) \o files("subdir", <<"tc1">>)}

\* The zips a run downloads: those of Archives, and every zip of distinct
\* entries, in every order, that is not made of whole test cases.
Zips ==
    Archives \cup
    {z \in UNION {[1..n -> EntryNames] : n \in 0..MaxEntries} :
        /\ \A i, j \in DOMAIN z : i # j => z[i] # z[j]
        /\ \A whole \in SUBSET {TestCaseFiles("", <<"tc1">>),
                                 TestCaseFiles("", <<"a", "b">>),
                                 TestCaseFiles("subdir", <<"tc1">>)} :
               UNION whole # {z[i] : i \in DOMAIN z}}

\* std::path::Path::extension and Path::with_extension on a path whose file
\* name does not begin with a dot.
extension(path) ==
    IF Len(path.parts) >= 2 THEN {path.parts[Len(path.parts)]} ELSE {}
set_extension(path, ext) ==
    [path EXCEPT !.parts = IF Len(@) >= 2
                           THEN Append(SubSeq(@, 1, Len(@) - 1), ext)
                           ELSE Append(@, ext)]

\* TestArchiveEntryKind::get_kind
get_kind(entry_name) ==
    IF "in" \in extension(entry_name) THEN "InputFile"
    ELSE IF "ans" \in extension(entry_name) THEN "AnswerFile"
    ELSE "Unknown"

\* PathExt::strip_extension: the parent and the file stem, the name of the
\* test case.
strip_extension(path) ==
    [path EXCEPT !.parts = IF Len(@) >= 2 THEN SubSeq(@, 1, Len(@) - 1) ELSE @]

\* TestCaseEntry::input_file_path and ::answer_file_path
input_file_path(name) == set_extension(name, "in")
answer_file_path(name) == set_extension(name, "ans")

\* TestArchiveMetadataBuilder::add_input_file and ::add_answer_file on the
\* map test_cases: name -> <<input file, answer file>>
add_input_file(test_cases, input_file) ==
    LET test_case_name == strip_extension(input_file) IN
    IF test_case_name \in DOMAIN test_cases
    THEN [test_cases EXCEPT ![test_case_name][1] = {input_file}]
    ELSE (test_case_name :> <<{input_file}, {}>>) @@ test_cases
add_answer_file(test_cases, answer_file) ==
    LET test_case_name == strip_extension(answer_file) IN
    IF test_case_name \in DOMAIN test_cases
    THEN [test_cases EXCEPT ![test_case_name][2] = {answer_file}]
    ELSE (test_case_name :> <<{}, {answer_file}>>) @@ test_cases

\* TestArchiveCorruption
Corruption(kind, path) == [kind |-> kind, path |-> path]

\* TestArchiveMetadataBuilder::ensure_test_cases_integrity: the errors it
\* may return, one per unpaired record (the map is visited in no fixed
\* order); none is Ok.
ensure_test_cases_integrity(test_cases) ==
    {Corruption("MissingAnswerFile", f) :
        f \in UNION {test_cases[n][1] : n \in {m \in DOMAIN test_cases :
                                                   test_cases[m][2] = {}}}}
    \cup {Corruption("MissingInputFile", f) :
        f \in UNION {test_cases[n][2] : n \in {m \in DOMAIN test_cases :
                                                   test_cases[m][1] = {}}}}

\* Result<TestArchiveMetadata>
MetadataOk(test_cases) == [ok |-> TRUE, test_cases |-> test_cases, error |-> {}]
MetadataErr(corruption) == [ok |-> FALSE, test_cases |-> <<>>, error |-> {corruption}]

\* HashMap::into_iter: the keys in one of the orders the map may visit them.
into_iter(keys) ==
    {v \in [1..Cardinality(keys) -> keys] :
        \A i, j \in DOMAIN v : i # j => v[i] # v[j]}

\* TestArchiveMetadataBuilder::get_metadata: the results it may give, the
\* Vec of test cases collected in the order of the map.
get_metadata(test_cases) ==
    IF ensure_test_cases_integrity(test_cases) = {}
    THEN {MetadataOk(v) : v \in into_iter(DOMAIN test_cases)}
    ELSE {MetadataErr(c) : c \in ensure_test_cases_integrity(test_cases)}

\* A try_from that passes over the entries it cannot categorize.
RECURSIVE try_from_skip_unknown(_, _, _)
try_from_skip_unknown(archive, i, test_cases) ==
    IF i > Len(archive) THEN get_metadata(test_cases)
    ELSE CASE get_kind(archive[i]) = "Unknown" ->
                try_from_skip_unknown(archive, i + 1, test_cases)
           [] get_kind(archive[i]) = "InputFile" ->
                try_from_skip_unknown(archive, i + 1,
                                      add_input_file(test_cases, archive[i]))
           [] get_kind(archive[i]) = "AnswerFile" ->
                try_from_skip_unknown(archive, i + 1,
                                      add_answer_file(test_cases, archive[i]))

\* impl TryFrom<&mut ZipArchive> for TestArchiveMetadata, from entry i on
\* with the builder's map `test_cases`.
RECURSIVE try_from(_, _, _)
try_from(archive, i, test_cases) ==
    IF i > Len(archive) THEN get_metadata(test_cases)
    ELSE CASE get_kind(archive[i]) = "Unknown" ->
                {MetadataErr(Corruption("UnknownEntry", archive[i]))}
           [] get_kind(archive[i]) = "InputFile" ->
                try_from(archive, i + 1, add_input_file(test_cases, archive[i]))
           [] get_kind(archive[i]) = "AnswerFile" ->
                try_from(archive, i + 1, add_answer_file(test_cases, archive[i]))

\* impl Extractable for ZipArchive, from entry i on: File::create fails on
\* an entry whose directory is not there, and nothing creates one.
RECURSIVE extract_into(_, _, _)
extract_into(archive, i, files) ==
    IF i > Len(archive) THEN [ok |-> TRUE, files |-> files]
    ELSE IF archive[i].parent # "" THEN [ok |-> FALSE, files |-> files]
    ELSE extract_into(archive, i + 1, files \cup {archive[i]})

\* Result<TestArchiveHandle>
HandleOk(test_cases) == [ok |-> TRUE, handle |-> {test_cases}, error |-> "None"]
HandleErr(error) == [ok |-> FALSE, handle |-> {}, error |-> error]

(* metadata.json, byte by byte. *)

Quote == "\""

\* The byte of a hole: what a file reads as between its old end and a write
\* made beyond it.
NulByte == "NUL"

\* The bytes of the strings the archive store writes.
Chars(str) ==
    CASE str = "" -> <<>>
      [] str = "a" -> <<"a">>
      [] str = "b" -> <<"b">>
      [] str = "tc1" -> <<"t", "c", "1">>
      [] str = "in" -> <<"i", "n">>
      [] str = "ans" -> <<"a", "n", "s">>
      [] str = "txt" -> <<"t", "x", "t">>
      [] str = "subdir" -> <<"s", "u", "b", "d", "i", "r">>
      [] str = "readme" -> <<"r", "e", "a", "d", "m", "e">>
      [] str = "name" -> <<"n", "a", "m", "e">>
      [] str = "test_cases" ->
             <<"t", "e", "s", "t", "_", "c", "a", "s", "e", "s">>

RECURSIVE concat(_)
concat(chars) == IF chars = <<>> THEN "" ELSE Head(chars) \o concat(Tail(chars))

RECURSIVE flatten(_)
flatten(tokens) == IF tokens = <<>> THEN <<>> ELSE Head(tokens) \o flatten(Tail(tokens))

\* The file name of a path: its parts with the dots between them.
RECURSIVE file_name_chars(_)
file_name_chars(parts) ==
    IF Len(parts) = 1 THEN Chars(parts[1])
    ELSE Chars(parts[1]) \o <<".">> \o file_name_chars(Tail(parts))

\* The String that strip_extension returns for the name of a test case:
\* `format!("{}/{}", parent, stem)`, or the stem alone without parent.
name_chars(name) ==
    (IF name.parent = "" THEN <<>> ELSE Chars(name.parent) \o <<"/">>)
        \o file_name_chars(name.parts)

RECURSIVE split(_, _)
split(chars, sep) ==
    IF \A k \in DOMAIN chars : chars[k] # sep THEN <<chars>>
    ELSE LET k == CHOOSE k \in DOMAIN chars :
                      chars[k] = sep /\ \A m \in 1..(k - 1) : chars[m] # sep
         IN <<SubSeq(chars, 1, k - 1)>> \o split(SubSeq(chars, k + 1, Len(chars)), sep)

\* PathBuf::from_str(&self.name) in TestCaseEntry::input_file_path and
\* ::answer_file_path: the parent before the last slash and the file name
\* after it.
PathBuf_from_str(chars) ==
    LET dirs == split(chars, "/")
        parent == SubSeq(chars, 1, Len(chars) - Len(dirs[Len(dirs)]) - 1)
        parts == split(dirs[Len(dirs)], ".")
    IN PathOf(concat(parent), [k \in DOMAIN parts |-> concat(parts[k])])

\* serde_json::to_writer(&mut metadata_file, archive_metadata): the writes
\* it makes on the unbuffered file, one for each token of the compact form
\* {"test_cases":[{"name":"<name>"},...]}.
format_escaped_str(chars) == <<<<Quote>>, chars, <<Quote>>>>

serialize_entry(name) ==
    <<<<"{">>>> \o format_escaped_str(Chars("name")) \o <<<<":">>>>
        \o format_escaped_str(name_chars(name)) \o <<<<"}">>>>

RECURSIVE serialize_seq(_, _)
serialize_seq(test_cases, i) ==
    IF i > Len(test_cases) THEN <<>>
    ELSE (IF i > 1 THEN <<<<",">>>> ELSE <<>>)
             \o serialize_entry(test_cases[i]) \o serialize_seq(test_cases, i + 1)

to_writer(test_cases) ==
    <<<<"{">>>> \o format_escaped_str(Chars("test_cases")) \o <<<<":">>, <<"[">>>>
        \o serialize_seq(test_cases, 1) \o <<<<"]">>, <<"}">>>>

\* write(2) of `bytes` at `offset` of the file: the bytes there are
\* replaced, the file grows as needed, and a gap before the offset reads as
\* zero bytes.
file_write(file, offset, bytes) ==
    [k \in 1..(IF offset + Len(bytes) > Len(file) THEN offset + Len(bytes)
               ELSE Len(file)) |->
        IF k > offset /\ k <= offset + Len(bytes) THEN bytes[k - offset]
        ELSE IF k <= Len(file) THEN file[k]
        ELSE NulByte]

\* What the deserializer makes of the bytes it has: a value and the place
\* after it, an error, or the end of the bytes before the end of the value.
ParseOk(val, next) == [st |-> "ok", val |-> val, next |-> next]
ParseErr == [st |-> "error", val |-> <<>>, next |-> 0]
ParseEof == [st |-> "eof", val |-> <<>>, next |-> 0]

RECURSIVE end_of_string(_, _)
end_of_string(buf, j) ==
    IF j > Len(buf) \/ buf[j] \in {Quote, NulByte} THEN j
    ELSE end_of_string(buf, j + 1)

\* A string from its opening quote at i: a control character in it is an
\* error.
parse_str(buf, i) ==
    LET j == end_of_string(buf, i + 1) IN
    IF j > Len(buf) THEN ParseEof
    ELSE IF buf[j] = NulByte THEN ParseErr
    ELSE ParseOk(SubSeq(buf, i + 1, j - 1), j + 1)

\* The type a field of a struct is deserialized as: a field the struct does
\* not have is read and ignored.
field_type(ty, key) ==
    IF ty = "TestArchiveMetadata" /\ key = Chars("test_cases") THEN "Vec"
    ELSE IF ty = "TestCaseEntry" /\ key = Chars("name") THEN "String"
    ELSE "IgnoredAny"

\* The type of the one field of a struct.
struct_field(ty) == IF ty = "TestArchiveMetadata" THEN "Vec" ELSE "String"

\* Deserialize for TestArchiveMetadata, TestCaseEntry, Vec<TestCaseEntry>,
\* String and IgnoredAny from the bytes at i on. A struct is read from an
\* object, or from an array of its fields in their order. The bytes the
\* writers put begin no number and no literal at the place of a value.
RECURSIVE parse_value(_, _, _)
RECURSIVE parse_fields(_, _, _)
RECURSIVE parse_members(_, _, _, _, _)
RECURSIVE parse_elements(_, _, _, _, _)
parse_value(buf, i, ty) ==
    IF i > Len(buf) THEN ParseEof
    ELSE CASE buf[i] = Quote /\ ty \in {"String", "IgnoredAny"} -> parse_str(buf, i)
           [] buf[i] = "[" /\ ty \in {"TestArchiveMetadata", "TestCaseEntry"} ->
                  parse_fields(buf, i + 1, ty)
           [] buf[i] = "[" /\ ty \in {"Vec", "IgnoredAny"} ->
                  parse_elements(buf, i + 1,
                                 IF ty = "Vec" THEN "TestCaseEntry" ELSE ty,
                                 <<>>, "first")
           [] buf[i] = "{" /\ ty \in {"TestArchiveMetadata", "TestCaseEntry",
                                      "IgnoredAny"} ->
                  parse_members(buf, i + 1, ty, {}, "first")
           [] OTHER -> ParseErr

\* The fields of a struct after the bracket of an array: the value of its
\* one field and the closing bracket; an array without element or with a
\* second one is an error.
parse_fields(buf, i, ty) ==
    IF i > Len(buf) THEN ParseEof
    ELSE IF buf[i] = "]" THEN ParseErr
    ELSE LET value == parse_value(buf, i, struct_field(ty)) IN
         IF value.st # "ok" THEN value
         ELSE IF value.next > Len(buf) THEN ParseEof
         ELSE IF buf[value.next] = "]" THEN ParseOk(value.val, value.next + 1)
         ELSE ParseErr

\* The members of an object after its brace: `expect` is "first" after the
\* brace, "key" after a comma and "more" after a value; `field` holds the
\* value of the struct's field once it is read.
parse_members(buf, i, ty, field, expect) ==
    IF i > Len(buf) THEN ParseEof
    ELSE CASE buf[i] = "}" /\ expect # "key" ->
                  IF ty = "IgnoredAny" THEN ParseOk(<<>>, i + 1)
                  ELSE IF field = {} THEN ParseErr
                  ELSE ParseOk(CHOOSE v \in field : TRUE, i + 1)
           [] buf[i] = "," /\ expect = "more" ->
                  parse_members(buf, i + 1, ty, field, "key")
           [] buf[i] = Quote /\ expect # "more" ->
                  LET key == parse_str(buf, i) IN
                  IF key.st # "ok" THEN key
                  ELSE IF field_type(ty, key.val) # "IgnoredAny" /\ field # {}
                  THEN ParseErr
                  ELSE IF key.next > Len(buf) THEN ParseEof
                  ELSE IF buf[key.next] # ":" THEN ParseErr
                  ELSE LET value == parse_value(buf, key.next + 1,
                                                field_type(ty, key.val)) IN
                       IF value.st # "ok" THEN value
                       ELSE parse_members(
                                buf, value.next, ty,
                                IF field_type(ty, key.val) = "IgnoredAny"
                                THEN field ELSE {value.val},
                                "more")
           [] OTHER -> ParseErr

\* The elements of an array after its bracket: `expect` is "first" after
\* the bracket, "value" after a comma and "more" after an element.
parse_elements(buf, i, ty, elements, expect) ==
    IF i > Len(buf) THEN ParseEof
    ELSE CASE buf[i] = "]" /\ expect # "value" -> ParseOk(elements, i + 1)
           [] buf[i] = "," /\ expect = "more" ->
                  parse_elements(buf, i + 1, ty, elements, "value")
           [] buf[i] \notin {"]", ","} /\ expect # "more" ->
                  LET value == parse_value(buf, i, ty) IN
                  IF value.st # "ok" THEN value
                  ELSE parse_elements(buf, value.next, ty,
                                      Append(elements, value.val), "more")
           [] OTHER -> ParseErr

\* serde_json::from_reader on the bytes read so far: a byte after the value
\* is an error (the writers put no white space).
from_reader(buf) ==
    LET metadata == parse_value(buf, 1, "TestArchiveMetadata") IN
    IF metadata.st = "ok" /\ metadata.next <= Len(buf) THEN ParseErr
    ELSE metadata

\* The calls of get_or_download for the archive, each made by a worker
\* thread for a submission; they run side by side.
Callers == 1..MaxGets

ArchiveAt(at, idx) == [at |-> at, idx |-> idx]

ArchiveIdle ==
    /\ aZip = <<>>
    /\ aDir = FALSE
    /\ aMeta = {}
    /\ aFiles = {}
    /\ aWriting = {}
    /\ aPc = [t \in Callers |-> ArchiveAt("idle", 0)]
    /\ aTried = [t \in Callers |-> {}]
    /\ aRet = [t \in Callers |-> {}]
    /\ aBuf = [t \in Callers |-> <<>>]
    /\ aOpened = {}

\* ArchiveStore::new over an empty root directory.
ArchiveInit ==
    /\ aZip \in Zips
    /\ aDir = FALSE
    /\ aMeta = {}
    /\ aFiles = {}
    /\ aWriting = {}
    /\ aPc = [t \in Callers |-> ArchiveAt("idle", 0)]
    /\ aTried = [t \in Callers |-> {}]
    /\ aRet = [t \in Callers |-> {}]
    /\ aBuf = [t \in Callers |-> <<>>]
    /\ aOpened = {}

\* get_or_download returns r to caller t.
ArchiveReturns(t, r) ==
    /\ aRet' = [aRet EXCEPT ![t] = {r}]
    /\ aPc' = [aPc EXCEPT ![t] = ArchiveAt("idle", 0)]

\* The extraction loop at entry i: the next entry, or the loop's end.
extract_next(i) ==
    IF i > Len(aZip) THEN ArchiveAt("handle", 0) ELSE ArchiveAt("extract", i)

\* ArchiveStore::get_or_download, the call of caller t: `archive_dir.exists()`.
GetOrDownload(t) ==
    /\ aPc[t].at = "idle"
    /\ aRet[t] = {}
    /\ aPc' = [aPc EXCEPT ![t] = ArchiveAt(IF aDir THEN "handle" ELSE "download", 0)]
    /\ UNCHANGED <<aZip, aDir, aMeta, aFiles, aWriting, aTried, aRet, aBuf,
                   aOpened, notArchive>>

\* download_archive: the download into a temporary file and the
\* verification, TestArchive::new_from_read.
DownloadArchive(t) ==
    /\ aPc[t].at = "download"
    /\ \E downloaded \in BOOLEAN :
         IF ~downloaded
         THEN /\ ArchiveReturns(t, HandleErr("Rest"))
              /\ UNCHANGED aTried
         ELSE \E metadata \in try_from(aZip, 1, <<>>) :
                /\ aTried' = [aTried EXCEPT ![t] = {metadata}]
                /\ IF metadata.ok
                   THEN /\ aPc' = [aPc EXCEPT ![t] = ArchiveAt("create_dir", 0)]
                        /\ UNCHANGED aRet
                   ELSE ArchiveReturns(t, HandleErr("BadTestArchive"))
    /\ UNCHANGED <<aZip, aDir, aMeta, aFiles, aWriting, aBuf, aOpened,
                   notArchive>>

\* extract_archive: `std::fs::create_dir_all(archive_dir)?`
CreateDir(t) ==
    /\ aPc[t].at = "create_dir"
    /\ aDir' = TRUE
    /\ aPc' = [aPc EXCEPT ![t] = ArchiveAt("create_metadata", 0)]
    /\ UNCHANGED <<aZip, aMeta, aFiles, aWriting, aTried, aRet, aBuf, aOpened,
                   notArchive>>

\* extract_archive: `File::create(&metadata_file_path)?`, which empties a
\* file that is there.
CreateMetadata(t) ==
    /\ aPc[t].at = "create_metadata"
    /\ aMeta' = {<<>>}
    /\ aPc' = [aPc EXCEPT ![t] = ArchiveAt("write_metadata", 1)]
    /\ UNCHANGED <<aZip, aDir, aFiles, aWriting, aTried, aRet, aBuf, aOpened,
                   notArchive>>

\* extract_archive: `serde_json::to_writer(&mut metadata_file, ..)?`, the
\* write of one token at the offset of the caller's own file, which is
\* past the tokens it has written; after the last one the file is dropped.
WriteMetadata(t) ==
    /\ aPc[t].at = "write_metadata"
    /\ LET writes == to_writer((CHOOSE m \in aTried[t] : TRUE).test_cases)
           idx == aPc[t].idx
           offset == Len(flatten(SubSeq(writes, 1, idx - 1)))
       IN /\ aMeta' = {file_write(file, offset, writes[idx]) : file \in aMeta}
          /\ aPc' = [aPc EXCEPT ![t] = IF idx = Len(writes) THEN extract_next(1)
                                       ELSE ArchiveAt("write_metadata", idx + 1)]
    /\ UNCHANGED <<aZip, aDir, aFiles, aWriting, aTried, aRet, aBuf, aOpened,
                   notArchive>>

\* ZipArchive::extract_into, an entry: `File::create(&archive_file_path)?`,
\* which fails on an entry whose directory is not there (nothing creates
\* one) and empties a file that is there.
ExtractCreate(t) ==
    /\ aPc[t].at = "extract"
    /\ LET entry == aZip[aPc[t].idx] IN
       IF entry.parent # ""
       THEN /\ ArchiveReturns(t, HandleErr("Io"))
            /\ UNCHANGED <<aFiles, aWriting>>
       ELSE /\ aFiles' = aFiles \cup {entry}
            /\ aWriting' = aWriting \cup {<<t, entry>>}
            /\ aPc' = [aPc EXCEPT ![t] = ArchiveAt("copy", aPc[t].idx)]
            /\ UNCHANGED aRet
    /\ UNCHANGED <<aZip, aDir, aMeta, aTried, aBuf, aOpened, notArchive>>

\* ZipArchive::extract_into, an entry: `std::io::copy(..)?` and the drop of
\* the output file.
ExtractCopy(t) ==
    /\ aPc[t].at = "copy"
    /\ aWriting' = aWriting \ {<<t, aZip[aPc[t].idx]>>}
    /\ aPc' = [aPc EXCEPT ![t] = extract_next(aPc[t].idx + 1)]
    /\ UNCHANGED <<aZip, aDir, aMeta, aFiles, aTried, aRet, aBuf, aOpened,
                   notArchive>>

\* TestArchiveHandle::new: `File::open(&metadata_file_path)?`
NewHandle(t) ==
    /\ aPc[t].at = "handle"
    /\ IF aMeta = {}
       THEN ArchiveReturns(t, HandleErr("Io"))
       ELSE /\ aPc' = [aPc EXCEPT ![t] = ArchiveAt("read", 0)]
            /\ UNCHANGED aRet
    /\ UNCHANGED <<aZip, aDir, aMeta, aFiles, aWriting, aTried, aBuf, aOpened,
                   notArchive>>

\* TestArchiveHandle::new: `serde_json::from_reader(&mut metadata_file)?`,
\* the read of one byte at the offset of the caller's own file, which is
\* past the bytes it has read. The deserializer returns its error at the
\* first byte that cannot follow, and at the end of the file it returns
\* the metadata or the error of a value cut short.
ReadMetadata(t) ==
    /\ aPc[t].at = "read"
    /\ \E file \in aMeta :
         IF Len(aBuf[t]) >= Len(file)
         THEN /\ LET metadata == from_reader(aBuf[t]) IN
                 ArchiveReturns(t,
                     IF metadata.st = "ok"
                     THEN HandleOk([k \in DOMAIN metadata.val |->
                                       PathBuf_from_str(metadata.val[k])])
                     ELSE HandleErr("Json"))
              /\ aBuf' = [aBuf EXCEPT ![t] = <<>>]
         ELSE LET buf == Append(aBuf[t], file[Len(aBuf[t]) + 1]) IN
              IF from_reader(buf).st = "error"
              THEN /\ ArchiveReturns(t, HandleErr("Json"))
                   /\ aBuf' = [aBuf EXCEPT ![t] = <<>>]
              ELSE /\ aBuf' = [aBuf EXCEPT ![t] = buf]
                   /\ UNCHANGED <<aPc, aRet>>
    /\ UNCHANGED <<aZip, aDir, aMeta, aFiles, aWriting, aTried, aOpened,
                   notArchive>>

\* What is known of opening the files of test case `name` after one more
\* open of it.
opened(name, input, answer) ==
    LET before == {o \in aOpened : o.name = name} IN
    [name |-> name,
     input |-> IF input # {} THEN input ELSE UNION {o.input : o \in before},
     answer |-> IF answer # {} THEN answer ELSE UNION {o.answer : o \in before}]

\* TestCaseInfo::open_input_file on a test case of the handle caller t has
\* in hand: `File::open(&self.input_file_path())`
OpenInputFile(t) ==
    /\ \E r \in aRet[t] : \E h \in r.handle : \E k \in DOMAIN h :
         aOpened' = {opened(h[k], {input_file_path(h[k]) \in aFiles}, {})}
    /\ UNCHANGED <<aZip, aDir, aMeta, aFiles, aWriting, aPc, aTried, aRet, aBuf,
                   notArchive>>

\* TestCaseInfo::open_answer_file: `File::open(&self.answer_file_path())`
OpenAnswerFile(t) ==
    /\ \E r \in aRet[t] : \E h \in r.handle : \E k \in DOMAIN h :
         aOpened' = {opened(h[k], {}, {answer_file_path(h[k]) \in aFiles})}
    /\ UNCHANGED <<aZip, aDir, aMeta, aFiles, aWriting, aPc, aTried, aRet, aBuf,
                   notArchive>>

ArchiveNext ==
    \/ \E t \in Callers : GetOrDownload(t)
    \/ \E t \in Callers : DownloadArchive(t)
    \/ \E t \in Callers : CreateDir(t)
    \/ \E t \in Callers : CreateMetadata(t)
    \/ \E t \in Callers : WriteMetadata(t)
    \/ \E t \in Callers : ExtractCreate(t)
    \/ \E t \in Callers : ExtractCopy(t)
    \/ \E t \in Callers : NewHandle(t)
    \/ \E t \in Callers : ReadMetadata(t)
    \/ \E t \in Callers : OpenInputFile(t)
    \/ \E t \in Callers : OpenAnswerFile(t)

(***************************************************************************)
(* The worker pool (driver/src/workers.rs, run).  A worker thread never    *)
(* returns from worker_entry: it ends by a panic only.                     *)
(***************************************************************************)
MAX_WORKERS == 10

\* num_workers of run
num_workers(workers) == IF workers > MAX_WORKERS THEN MAX_WORKERS ELSE workers

\* The worker ids the join loop visits: `(1..num_workers).zip(worker_threads)`
\* ends with the range, which leaves num_workers out.
joined_workers(workers) == 1..(num_workers(workers) - 1)

PoolIdle ==
    /\ pWorkers = 0
    /\ pPc = "idle"
    /\ pNext = 0
    /\ pThread = [i \in 1..MaxWorkers |-> "none"]
    /\ pFailed = 0

\* do_main calls workers::run with the configuration it has read.
PoolInit ==
    /\ pWorkers \in 0..MaxWorkers
    /\ pPc = "start"
    /\ pNext = 0
    /\ pThread = [i \in 1..MaxWorkers |-> "none"]
    /\ pFailed = 0

\* run: the test of config.workers.
RunStart ==
    /\ pPc = "start"
    /\ IF pWorkers = 0
       THEN pPc' = "err" /\ UNCHANGED pNext
       ELSE pPc' = "spawn" /\ pNext' = 1
    /\ UNCHANGED <<pWorkers, pThread, pFailed, notPool>>

\* run: one turn of the spawn loop.
RunSpawn ==
    /\ pPc = "spawn"
    /\ pThread' = [pThread EXCEPT ![pNext] = "running"]
    /\ IF pNext = num_workers(pWorkers)
       THEN pPc' = "join" /\ pNext' = 1
       ELSE pNext' = pNext + 1 /\ UNCHANGED pPc
    /\ UNCHANGED <<pWorkers, pFailed, notPool>>

\* A worker thread panics.
WorkerPanics(i) ==
    /\ pPc \in {"spawn", "join"}
    /\ pThread[i] = "running"
    /\ pThread' = [pThread EXCEPT ![i] = "panicked"]
    /\ UNCHANGED <<pWorkers, pPc, pNext, pFailed, notPool>>

\* run: `handle.join()` of the join loop, which waits for the thread to end
\* and gets Err from a panicked one.
RunJoin ==
    /\ pPc = "join"
    /\ pNext \in joined_workers(pWorkers)
    /\ pThread[pNext] = "panicked"
    /\ pPc' = "err"
    /\ pFailed' = pNext
    /\ UNCHANGED <<pWorkers, pNext, pThread, notPool>>

\* run: the join loop has no handle left to visit and run returns Ok(()).
RunReturn ==
    /\ pPc = "join"
    /\ pNext \notin joined_workers(pWorkers)
    /\ pPc' = "ok"
    /\ UNCHANGED <<pWorkers, pNext, pThread, pFailed, notPool>>

PoolNext ==
    \/ RunStart
    \/ RunSpawn
    \/ \E i \in 1..MaxWorkers : WorkerPanics(i)
    \/ RunJoin
    \/ RunReturn

(***************************************************************************)
(* The syscall filter of a sandboxed child (sandbox/src/seccomp.rs and     *)
(* ProcessBuilder::apply_seccomp).                                         *)
(***************************************************************************)
Syscalls == {"execve", "clone", "read", "write", "socket"}

\* seccomp::apply_syscall_filters: `seccomp_init(SCMP_ACT_KILL)`, the action
\* that kills the calling thread, then one rule per filter.
apply_syscall_filters(filters) == [default |-> "KillThread", rules |-> filters]

\* ProcessBuilder::apply_seccomp: {} when the whitelist is empty and no
\* filter is loaded, else one Allow rule per syscall of the list.
apply_seccomp(syscall_whitelist) ==
    IF syscall_whitelist = {} THEN {}
    ELSE {apply_syscall_filters({[syscall |-> sc, action |-> "Allow"] :
                                   sc \in syscall_whitelist})}

\* What the kernel does with a syscall of a thread under `filter`.
seccomp_action(filter, syscall) ==
    IF filter = {} THEN "Allow"
    ELSE LET f == CHOOSE g \in filter : TRUE IN
         IF \E rule \in f.rules : rule.syscall = syscall
         THEN (CHOOSE rule \in f.rules : rule.syscall = syscall).action
         ELSE f.default

SeccompIdle ==
    /\ xWhitelist = {}
    /\ xFilter = {}
    /\ xPc = "idle"
    /\ xThreads = 0
    /\ xBanned = FALSE
    /\ xTerm = {}
    /\ xStatus = {}

\* ProcessBuilder::start: the child after fork, one thread.
SeccompInit ==
    /\ xWhitelist \in SUBSET Syscalls
    /\ xFilter = {}
    /\ xPc = "forked"
    /\ xThreads = 1
    /\ xBanned = FALSE
    /\ xTerm = {}
    /\ xStatus = {}

\* A thread of the child makes `syscall`; `then` is the child's position if
\* the kernel lets the call through.
child_syscall(syscall, then) ==
    LET action == seccomp_action(xFilter, syscall) IN
    CASE action = "Allow" ->
           /\ xPc' = then
           /\ xThreads' = IF syscall = "clone" /\ xThreads < MaxChildThreads
                          THEN xThreads + 1 ELSE xThreads
           /\ UNCHANGED <<xBanned, xTerm>>
      [] action = "KillThread" ->
           /\ xBanned' = TRUE
           /\ xThreads' = xThreads - 1
           /\ IF xThreads = 1
              THEN xPc' = "dead" /\ xTerm' = {WaitStatus("Signaled", SIGSYS)}
              ELSE UNCHANGED <<xPc, xTerm>>
      [] action = "KillProcess" ->
           /\ xBanned' = TRUE
           /\ xThreads' = 0
           /\ xPc' = "dead"
           /\ xTerm' = {WaitStatus("Signaled", SIGSYS)}

\* start_child: apply_seccomp, the last step before execve.
ApplySeccomp ==
    /\ xPc = "forked"
    /\ xFilter' = apply_seccomp(xWhitelist)
    /\ xPc' = "filtered"
    /\ UNCHANGED <<xWhitelist, xThreads, xBanned, xTerm, xStatus, notSeccomp>>

\* start_child: execve, made under the filter.
Execve ==
    /\ xPc = "filtered"
    /\ child_syscall("execve", "running")
    /\ UNCHANGED <<xWhitelist, xFilter, xStatus, notSeccomp>>

\* The program makes a syscall.
ChildSyscall(syscall) ==
    /\ xPc = "running"
    /\ child_syscall(syscall, "running")
    /\ UNCHANGED <<xWhitelist, xFilter, xStatus, notSeccomp>>

\* The program exits.
ChildExit ==
    /\ xPc = "running"
    /\ xPc' = "dead"
    /\ xThreads' = 0
    /\ xTerm' = {WaitStatus("Exited", 0)}
    /\ UNCHANGED <<xWhitelist, xFilter, xBanned, xStatus, notSeccomp>>

\* daemon_main: the wait reports the terminated child.
MonitorWait ==
    /\ xTerm # {} /\ xStatus = {}
    /\ xStatus' = {wait_status_result(ws) : ws \in xTerm}
    /\ UNCHANGED <<xWhitelist, xFilter, xPc, xThreads, xBanned, xTerm, notSeccomp>>

SeccompNext ==
    \/ ApplySeccomp
    \/ Execve
    \/ \E syscall \in Syscalls : ChildSyscall(syscall)
    \/ ChildExit
    \/ MonitorWait

(***************************************************************************)
(* The specifications: one component runs, the others stay idle.           *)
(***************************************************************************)
\* Every ProcessResourceUsage within the bounds.
ProcessResourceUsage ==
    [user_cpu_time : 0..MaxCpu, kernel_cpu_time : 0..MaxCpu,
     virtual_mem_size : 0..MaxMem, resident_set_size : 0..MaxMem]

RusageIdle ==
    /\ uA = ProcessResourceUsage_new /\ uB = ProcessResourceUsage_new
    /\ uAB = {} /\ uBA = {}

RusageInit ==
    /\ uA \in ProcessResourceUsage /\ uB \in ProcessResourceUsage
    /\ uAB = {} /\ uBA = {}

\* a.update(&b) on a copy of a
UpdateAB ==
    /\ uAB = {}
    /\ uAB' = {update(uA, uB)}
    /\ UNCHANGED <<uA, uB, uBA, notRusage>>

\* b.update(&a) on a copy of b
UpdateBA ==
    /\ uBA = {}
    /\ uBA' = {update(uB, uA)}
    /\ UNCHANGED <<uA, uB, uAB, notRusage>>

RusageNext == UpdateAB \/ UpdateBA

LowerHex ==
    <<"0", "1", "2", "3", "4", "5", "6", "7", "8", "9",
      "a", "b", "c", "d", "e", "f">>
UpperHex ==
    <<"0", "1", "2", "3", "4", "5", "6", "7", "8", "9",
      "A", "B", "C", "D", "E", "F">>

\* char::to_digit(16): {} for a letter that is no hexadecimal digit.
to_digit(c) ==
    {i - 1 : i \in {k \in 1..16 : LowerHex[k] = c \/ UpperHex[k] = c}}

\* The value of a sequence of hexadecimal digits, most significant first.
RECURSIVE radix_value(_, _)
radix_value(digits, acc) ==
    IF digits = <<>> THEN acc
    ELSE radix_value(Tail(digits),
                     16 * acc + (CHOOSE v \in to_digit(Head(digits)) : TRUE))

\* u8::from_str_radix(src, 16) on the two letters of a byte: {} for Err.
\* A leading plus sign is skipped when a digit follows it.
from_str_radix(src) ==
    LET digits == IF src # <<>> /\ src[1] = "+" THEN Tail(src) ELSE src
    IN  IF digits = <<>> \/ \E i \in 1..Len(digits) : to_digit(digits[i]) = {}
        THEN {}
        ELSE {radix_value(digits, 0)}

ObjectIdOk(data) == [ok |-> TRUE, data |-> data]
ObjectIdErr == [ok |-> FALSE, data |-> <<>>]

\* <ObjectId as FromStr>::from_str
ObjectId_from_str(s) ==
    IF Len(s) # 24 THEN ObjectIdErr
    ELSE LET byte(i) == from_str_radix(SubSeq(s, 2 * i - 1, 2 * i))
         IN  IF \E i \in 1..12 : byte(i) = {} THEN ObjectIdErr
             ELSE ObjectIdOk([i \in 1..12 |-> CHOOSE b \in byte(i) : TRUE])

\* A formatting with upper-case digits, as {:02X} would give.
ObjectId_fmt_upper(data) ==
    [i \in 1..24 |->
        IF i % 2 = 1 THEN UpperHex[(data[(i + 1) \div 2] \div 16) + 1]
        ELSE UpperHex[(data[i \div 2] % 16) + 1]]

\* <ObjectId as Display>::fmt: {:02x} of every byte in turn.
ObjectId_fmt(data) ==
    [i \in 1..24 |->
        IF i % 2 = 1 THEN LowerHex[(data[(i + 1) \div 2] \div 16) + 1]
        ELSE LowerHex[(data[i \div 2] % 16) + 1]]

\* str::to_lowercase on the letters that occur here.
to_lowercase(s) ==
    [i \in 1..Len(s) |->
        IF \E k \in 1..16 : UpperHex[k] = s[i]
        THEN LowerHex[CHOOSE k \in 1..16 : UpperHex[k] = s[i]]
        ELSE s[i]]

\* A valid object id string: 24 hexadecimal digits.
is_hex_24(s) == Len(s) = 24 /\ \A i \in 1..24 : to_digit(s[i]) # {}

\* The letters the strings are made of, and the values the bytes take.
Letters == {"a", "F", "g", "+"}
ByteValues == {0, 9, 10, 16, 171, 239, 255}

\* The strings and ids that are tried: the leading MaxVaried bytes vary, the
\* rest is "00"; also strings one letter too short and one too long.
Strings ==
    LET lead == [1..(2 * MaxVaried) -> Letters]
        full == {[i \in 1..24 |-> IF i <= 2 * MaxVaried THEN l[i] ELSE "0"]
                    : l \in lead}
    IN  full \cup {SubSeq(s, 1, 23) : s \in full}
             \cup {Append(s, "0") : s \in full}
ObjectIds ==
    {[i \in 1..12 |-> IF i <= MaxVaried THEN l[i] ELSE 0]
        : l \in [1..MaxVaried -> ByteValues]}

ObjectidIdle ==
    /\ oStr = <<>> /\ oParsed = {} /\ oId = {} /\ oText = {} /\ oBack = {}

ObjectidInit ==
    /\ oParsed = {} /\ oText = {} /\ oBack = {}
    /\ \/ oStr \in Strings /\ oId = {}
       \/ oStr = <<>> /\ oId \in {{id} : id \in ObjectIds}

\* ObjectId::from_str(s) on the string at hand
FromStr ==
    /\ oParsed = {} /\ oId = {}
    /\ oParsed' = {ObjectId_from_str(oStr)}
    /\ oId' = IF ObjectId_from_str(oStr).ok
              THEN {ObjectId_from_str(oStr).data} ELSE {}
    /\ UNCHANGED <<oStr, oText, oBack, notObjectid>>

\* id.to_string()
FormatId ==
    /\ oId # {} /\ oText = {}
    /\ oText' = {ObjectId_fmt(id) : id \in oId}
    /\ UNCHANGED <<oStr, oParsed, oId, oBack, notObjectid>>

\* ObjectId::from_str on the text that to_string gave
FromStrBack ==
    /\ oText # {} /\ oBack = {}
    /\ oBack' = {ObjectId_from_str(t) : t \in oText}
    /\ UNCHANGED <<oStr, oParsed, oId, oText, notObjectid>>

ObjectidNext == FromStr \/ FormatId \/ FromStrBack

\* Ok(result) and Err(..) of compile_source
CompileOk(result) == [ok |-> TRUE, result |-> {result}]
CompileErr == [ok |-> FALSE, result |-> {}]

\* JudgeEngine::compile as the fork server runs it for thread t's task:
\* {} is Err.  An interpreted program is its own output file; a compiler
\* that succeeds leaves its output file in the task's output directory.
compile(t, interpreted, status, stderr) ==
    IF interpreted
    THEN {[CompilationResult_succeed EXCEPT !.output_file = {<<t, "src">>}]}
    ELSE {IF r.succeeded THEN [r EXCEPT !.output_file = {<<t, "out">>}] ELSE r
            : r \in execute_compiler(status, stderr)}

\* Drop of tempfile::TempDir and of tempfile::NamedTempFile: the directory
\* with everything in it and the source file are removed.
drop_temporaries(t, files) == files \ {<<t, "src">>, <<t, "out">>}

CompileIdle ==
    /\ csPc = [t \in Threads |-> "idle"]
    /\ csInterp = [t \in Threads |-> FALSE]
    /\ csFiles = {}
    /\ csDirs = {}
    /\ csResult = [t \in Threads |-> {}]
    /\ csRet = [t \in Threads |-> {}]

CompileInit == CompileIdle

\* A call of compile_source by thread t
CompileSource(t, interpreted) ==
    /\ csPc[t] = "idle"
    /\ csPc' = [csPc EXCEPT ![t] = "src"]
    /\ csInterp' = [csInterp EXCEPT ![t] = interpreted]
    /\ csResult' = [csResult EXCEPT ![t] = {}]
    /\ csRet' = [csRet EXCEPT ![t] = {}]
    /\ UNCHANGED <<csFiles, csDirs, notCompile>>

\* `NamedTempFile::new()?` and `std::fs::write(src_file.path(), ..)?`
WriteSource(t) ==
    /\ csPc[t] = "src"
    /\ \E created \in BOOLEAN, written \in BOOLEAN :
         IF created /\ written
         THEN /\ csFiles' = csFiles \cup {<<t, "src">>}
              /\ csPc' = [csPc EXCEPT ![t] = "dir"]
              /\ UNCHANGED csRet
         ELSE /\ csFiles' = drop_temporaries(t, csFiles)
              /\ csPc' = [csPc EXCEPT ![t] = "idle"]
              /\ csRet' = [csRet EXCEPT ![t] = {CompileErr}]
    /\ UNCHANGED <<csInterp, csDirs, csResult, notCompile>>

\* `tempfile::tempdir()?`
CreateOutputDir(t) ==
    /\ csPc[t] = "dir"
    /\ \E created \in BOOLEAN :
         IF created
         THEN /\ csDirs' = csDirs \cup {t}
              /\ csPc' = [csPc EXCEPT ![t] = "exec"]
              /\ UNCHANGED <<csFiles, csRet>>
         ELSE /\ csFiles' = drop_temporaries(t, csFiles)
              /\ csPc' = [csPc EXCEPT ![t] = "idle"]
              /\ csRet' = [csRet EXCEPT ![t] = {CompileErr}]
              /\ UNCHANGED csDirs
    /\ UNCHANGED <<csInterp, csResult, notCompile>>

\* `self.execute_cmd(&cmd)?.unwrap_as_compilation_result()`
ExecuteCompile(t) ==
    /\ csPc[t] = "exec"
    /\ \E status \in TerminalStatus, stderr \in {{}, {"msg"}}, answered \in BOOLEAN :
         LET result == compile(t, csInterp[t], status, stderr)
         IN  IF answered /\ result # {}
             THEN /\ csResult' = [csResult EXCEPT ![t] = result]
                  /\ csFiles' = csFiles \cup
                        {f \in {<<t, "out">>} :
                            \E r \in result : r.output_file = {f}}
                  /\ csPc' = [csPc EXCEPT ![t] = "return"]
                  /\ UNCHANGED <<csDirs, csRet>>
             ELSE /\ csFiles' = drop_temporaries(t, csFiles)
                  /\ csDirs' = csDirs \ {t}
                  /\ csPc' = [csPc EXCEPT ![t] = "idle"]
                  /\ csRet' = [csRet EXCEPT ![t] = {CompileErr}]
                  /\ UNCHANGED csResult
    /\ UNCHANGED <<csInterp, notCompile>>

\* `Ok(result)`: the function returns, and output_dir and src_file go out
\* of scope
ReturnResult(t) ==
    /\ csPc[t] = "return"
    /\ csRet' = [csRet EXCEPT ![t] = {CompileOk(r) : r \in csResult[t]}]
    /\ csFiles' = drop_temporaries(t, csFiles)
    /\ csDirs' = csDirs \ {t}
    /\ csPc' = [csPc EXCEPT ![t] = "idle"]
    /\ UNCHANGED <<csInterp, csResult, notCompile>>

CompileNext ==
    \/ \E t \in Threads, interpreted \in BOOLEAN : CompileSource(t, interpreted)
    \/ \E t \in Threads : WriteSource(t)
    \/ \E t \in Threads : CreateOutputDir(t)
    \/ \E t \in Threads : ExecuteCompile(t)
    \/ \E t \in Threads : ReturnResult(t)

\* KeyLock::keys, the mutex of a KeyLockEntry, db::CONNECTION,
\* ForkServerClient::socket and Authenticator::jwt
KeysMutex == <<"keys", 0>>
EntryMutex(key) == <<"entry", key>>
ConnectionMutex == <<"connection", 0>>
SocketMutex == <<"socket", 0>>
JwtMutex == <<"jwt", 0>>

SharedMutexes ==
    {KeysMutex, ConnectionMutex, SocketMutex, JwtMutex}
        \cup {EntryMutex(key) : key \in ProblemIds}

LockOp(mutex) == [op |-> "lock", mutex |-> mutex]
UnlockOp(mutex) == [op |-> "unlock", mutex |-> mutex]

\* db::execute: the connection's mutex around the callback, which takes no
\* other mutex.
db_execute == <<LockOp(ConnectionMutex), UnlockOp(ConnectionMutex)>>

\* Authenticator::authenticate, which every request of the REST client
\* goes through: the guard of jwt lives to the function's end.
authenticate == <<LockOp(JwtMutex), UnlockOp(JwtMutex)>>

\* ForkServerClient::execute_cmd: the socket's mutex around send and receive.
execute_cmd == <<LockOp(SocketMutex), UnlockOp(SocketMutex)>>

\* Authenticator::handle, which every request of the REST client goes
\* through: authenticate(false), and authenticate(true) after a 401 or 403.
request(reauth) == authenticate \o (IF reauth THEN authenticate ELSE <<>>)

\* A key lock that waits for the entry's mutex with the map's mutex in hand
\* and takes the map's mutex again before it lets go of the entry's.
lock_and_execute_nested(key) ==
    [enter |-> <<LockOp(KeysMutex), LockOp(EntryMutex(key)), UnlockOp(KeysMutex)>>,
     exit |-> <<LockOp(KeysMutex), UnlockOp(KeysMutex), UnlockOp(EntryMutex(key))>>]

\* KeyLock::lock_and_execute: three blocks, each dropping its guard at its
\* end; enter is what comes before the action, exit what comes after it.
lock_and_execute(key) ==
    [enter |-> <<LockOp(KeysMutex), UnlockOp(KeysMutex), LockOp(EntryMutex(key))>>,
     exit |-> <<UnlockOp(EntryMutex(key)), LockOp(KeysMutex), UnlockOp(KeysMutex)>>]

\* Where a worker goes next: the call, the lock operations of the call, the
\* problem of its submission and the PATCH attempts left.
Step(at, ops, id, retry) == [at |-> at, ops |-> ops, id |-> id, retry |-> retry]

\* The judge mode of the problems as the dispatcher has them: problem 1 is
\* Standard, the others have a jury.
problem_has_jury(id) ==
    has_jury(ProblemMetadata_from(
        ProblemInfo(id, IF id = 1 THEN "Standard" ELSE "SpecialJudge", 0)))

CallAnswers ==
    {"Err", "Ok", "None", "Some", "Stale", "Fresh", "Hit", "Miss", "Failed",
     "Succeeded"}

\* What the call a worker is in can answer.
answers(at) ==
    CASE at = "get_submission" -> {"Err", "None", "Some"}
      [] at = "get_timestamp" -> {"Err", "None", "Some"}
      [] at = "get_remote_timestamp" -> {"Err", "Stale", "Fresh"}
      [] at = "get_cached" -> {"Err", "None", "Some"}
      [] at = "archive_dir_exists" -> {"Hit", "Miss"}
      [] at = "execute_cmd" -> {"Err", "Failed", "Succeeded"}
      [] at \in {"idle", "problem_err"} -> {"Ok"}
      [] at = "panicked" -> {}
      [] OTHER -> {"Err", "Ok"}

\* ProblemStore::get inside the key lock: every `?` leaves the closure, and
\* so does the cached row; compile_jury returns None on every answer of the
\* fork server, so nothing is copied.
ProblemStore_get(at, answer, reauth, id) ==
    LET exit == lock_and_execute(id).exit
        get_problem_info == Step("get_problem_info", request(reauth), id, 0)
        metadata_save == Step("save", db_execute, id, 0)
    IN CASE answer = "Err" -> Step("problem_err", exit, id, 0)
         [] at = "get_timestamp" /\ answer = "Some" ->
                Step("get_remote_timestamp", request(reauth), id, 0)
         [] at = "get_timestamp" /\ answer = "None" -> get_problem_info
         [] at = "get_remote_timestamp" /\ answer = "Fresh" ->
                Step("get_cached", db_execute, id, 0)
         [] at = "get_remote_timestamp" /\ answer = "Stale" -> get_problem_info
         [] at = "get_cached" /\ answer = "Some" ->
                Step("archive_dir_exists", exit, id, 0)
         [] at = "get_cached" /\ answer = "None" -> get_problem_info
         [] at = "get_problem_info" ->
                IF problem_has_jury(id) THEN Step("compile_jury", <<>>, id, 0)
                ELSE metadata_save
         [] at = "compile_jury" -> Step("jury_execute_cmd", execute_cmd, id, 0)
         [] at = "jury_execute_cmd" -> metadata_save
         [] at = "save" -> Step("archive_dir_exists", exit, id, 0)

GetCalls ==
    {"get_timestamp", "get_remote_timestamp", "get_cached", "get_problem_info",
     "compile_jury", "jury_execute_cmd", "save"}

\* worker_entry after handle_submission: the first PATCH of the result.
patch_judge_result(reauth) ==
    Step("patch_judge_result", request(reauth), 0, RetryCount)

\* handle_submission after problems().get: the archive (a hit, or the
\* temporary file, the download, verification and extraction), the handle,
\* the jury check (jury_exec_path is never set), compile_source, and
\* `expect` on the compiler_out of a compilation that succeeded, which is
\* None.
handle_submission_calls(at, answer, reauth, id) ==
    CASE answer = "Err" \/ at = "problem_err" -> patch_judge_result(reauth)
      [] at = "archive_dir_exists" /\ answer = "Miss" ->
             Step("archive_tempfile", <<>>, id, 0)
      [] at = "archive_tempfile" ->
             Step("download_archive", request(reauth), id, 0)
      [] at = "archive_dir_exists" /\ answer = "Hit" ->
             Step("archive_handle", <<>>, id, 0)
      [] at = "download_archive" -> Step("archive_handle", <<>>, id, 0)
      [] at = "archive_handle" ->
             IF problem_has_jury(id) THEN patch_judge_result(reauth)
             ELSE Step("compile_source", <<>>, id, 0)
      [] at = "compile_source" -> Step("execute_cmd", execute_cmd, id, 0)
      [] at = "execute_cmd" /\ answer = "Failed" -> patch_judge_result(reauth)
      [] at = "execute_cmd" /\ answer = "Succeeded" -> Step("panicked", <<>>, 0, 0)

HandleCalls ==
    {"problem_err", "archive_dir_exists", "archive_tempfile", "download_archive",
     "archive_handle",
     "compile_source", "execute_cmd"}

\* worker_entry: the loop around get_submission, handle_submission and the
\* PATCH with its retries.
worker_entry(pc, answer, reauth, id) ==
    CASE pc.at = "idle" -> Step("get_submission", request(reauth), 0, 0)
      [] pc.at = "get_submission" /\ answer = "Some" ->
             Step("get_timestamp", lock_and_execute(id).enter \o db_execute, id, 0)
      [] pc.at = "get_submission" /\ answer # "Some" -> Step("idle", <<>>, 0, 0)
      [] pc.at = "patch_judge_result" /\ (answer = "Ok" \/ pc.retry = 1) ->
             Step("idle", <<>>, 0, 0)
      [] pc.at = "patch_judge_result" /\ answer = "Err" /\ pc.retry > 1 ->
             Step("patch_judge_result", request(reauth), 0, pc.retry - 1)

LoopCalls == {"idle", "get_submission", "patch_judge_result"}

LocksIdle ==
    /\ lkOps = [t \in Threads |-> <<>>]
    /\ lkOwner = [m \in SharedMutexes |-> 0]
    /\ lkPc = [t \in Threads |-> [at |-> "idle", id |-> 0, retry |-> 0]]

LocksInit == LocksIdle

\* The mutexes thread t holds.
held_by(t) == {m \in SharedMutexes : lkOwner[m] = t}

\* Thread t waits for a mutex that thread u holds.
waits_for(t, u) ==
    /\ lkOps[t] # <<>>
    /\ Head(lkOps[t]).op = "lock"
    /\ lkOwner[Head(lkOps[t]).mutex] = u

\* The call the thread is in has returned and the thread goes to its next.
Goes(t, step) ==
    /\ lkOps' = [lkOps EXCEPT ![t] = step.ops]
    /\ lkPc' = [lkPc EXCEPT ![t] = [at |-> step.at, id |-> step.id,
                                     retry |-> step.retry]]
    /\ UNCHANGED <<lkOwner, notLocks>>

\* worker_entry: get_submission and its answer, and the PATCH of the result.
TakeSubmission(t, answer, reauth, id) ==
    /\ lkOps[t] = <<>>
    /\ lkPc[t].at \in LoopCalls
    /\ answer \in answers(lkPc[t].at)
    /\ Goes(t, worker_entry(lkPc[t], answer, reauth, id))

\* ProblemStore::get, a call of the closure has returned.
GetProblem(t, answer, reauth) ==
    /\ lkOps[t] = <<>>
    /\ lkPc[t].at \in GetCalls
    /\ answer \in answers(lkPc[t].at)
    /\ Goes(t, ProblemStore_get(lkPc[t].at, answer, reauth, lkPc[t].id))

\* handle_submission, a call after problems().get has returned.
HandleCall(t, answer, reauth) ==
    /\ lkOps[t] = <<>>
    /\ lkPc[t].at \in HandleCalls
    /\ answer \in answers(lkPc[t].at)
    /\ Goes(t, handle_submission_calls(lkPc[t].at, answer, reauth, lkPc[t].id))

\* Mutex::lock returns: the mutex is free and becomes the thread's.
MutexLock(t) ==
    /\ lkOps[t] # <<>>
    /\ Head(lkOps[t]).op = "lock"
    /\ lkOwner[Head(lkOps[t]).mutex] = 0
    /\ lkOwner' = [lkOwner EXCEPT ![Head(lkOps[t]).mutex] = t]
    /\ lkOps' = [lkOps EXCEPT ![t] = Tail(@)]
    /\ UNCHANGED <<lkPc, notLocks>>

\* The guard is dropped.
MutexUnlock(t) ==
    /\ lkOps[t] # <<>>
    /\ Head(lkOps[t]).op = "unlock"
    /\ lkOwner' = [lkOwner EXCEPT ![Head(lkOps[t]).mutex] = 0]
    /\ lkOps' = [lkOps EXCEPT ![t] = Tail(@)]
    /\ UNCHANGED <<lkPc, notLocks>>

LocksNext ==
    \/ \E t \in Threads, answer \in CallAnswers, reauth \in BOOLEAN,
          id \in ProblemIds : TakeSubmission(t, answer, reauth, id)
    \/ \E t \in Threads, answer \in CallAnswers, reauth \in BOOLEAN :
          GetProblem(t, answer, reauth)
    \/ \E t \in Threads, answer \in CallAnswers, reauth \in BOOLEAN :
          HandleCall(t, answer, reauth)
    \/ \E t \in Threads : MutexLock(t)
    \/ \E t \in Threads : MutexUnlock(t)

\* Whether the engine reads the pipe after the wait: execute_compiler on
\* any status but Normal(0), judge_spj on every Normal status.
reads_pipe(kind, status) ==
    IF kind = "compiler" THEN status # Status("Normal", 0)
    ELSE status.kind = "Normal"

\* Whether the monitor polls the child's limits: a compiler's builder has
\* none, the jury's builder has the jury limits of the engine configuration.
has_limits(kind) == kind = "checker"

PipeIdle ==
    /\ ppKind = "compiler" /\ ppText = 0 /\ ppCode = 0 /\ ppWritten = 0
    /\ ppBuf = 0 /\ ppChild = "exited" /\ ppEngine = "done"
    /\ ppStatus = {} /\ ppMsg = {}

\* `process_builder.start()?` has returned.
PipeInit ==
    /\ ppKind \in {"compiler", "checker"}
    /\ ppText \in 0..MaxText
    /\ ppCode \in ExitCodes
    /\ ppWritten = 0 /\ ppBuf = 0
    /\ ppChild = "running" /\ ppEngine = "wait"
    /\ ppStatus = {} /\ ppMsg = {}

\* The child is blocked in a write to the full pipe.
child_blocked ==
    ppChild = "running" /\ ppWritten < ppText /\ ppBuf = PipeCapacity

\* The child writes a unit of text.
ChildWrite ==
    /\ ppChild = "running" /\ ppWritten < ppText /\ ppBuf < PipeCapacity
    /\ ppWritten' = ppWritten + 1
    /\ ppBuf' = ppBuf + 1
    /\ UNCHANGED <<ppKind, ppText, ppCode, ppChild, ppEngine, ppStatus, ppMsg,
                   notPipe>>

\* The child has written all its text and exits.
ChildExits ==
    /\ ppChild = "running" /\ ppWritten = ppText
    /\ ppChild' = "exited"
    /\ UNCHANGED <<ppKind, ppText, ppCode, ppWritten, ppBuf, ppEngine, ppStatus,
                   ppMsg, notPipe>>

\* wait_for_exit returns for a child that has exited.
WaitForExit ==
    /\ ppEngine = "wait" /\ ppChild = "exited"
    /\ ppStatus' = {Status("Normal", ppCode)}
    /\ ppEngine' = IF reads_pipe(ppKind, Status("Normal", ppCode))
                   THEN "read" ELSE "done"
    /\ UNCHANGED <<ppKind, ppText, ppCode, ppWritten, ppBuf, ppChild, ppMsg,
                   notPipe>>

\* wait_for_exit returns because the monitor found the real time limit
\* exceeded and killed the child.
WaitForExitLimit ==
    /\ ppEngine = "wait" /\ ppChild = "running" /\ has_limits(ppKind)
    /\ ppChild' = "killed"
    /\ ppStatus' = {Status("RealTimeLimitExceeded", 0)}
    /\ ppEngine' = "done"
    /\ UNCHANGED <<ppKind, ppText, ppCode, ppWritten, ppBuf, ppMsg, notPipe>>

\* `read_to_string(..)` on the read end of the pipe
ReadToString ==
    /\ ppEngine = "read"
    /\ ppMsg' = {ppBuf}
    /\ ppBuf' = 0
    /\ ppEngine' = "done"
    /\ UNCHANGED <<ppKind, ppText, ppCode, ppWritten, ppChild, ppStatus,
                   notPipe>>

PipeNext ==
    \/ ChildWrite
    \/ ChildExits
    \/ WaitForExit
    \/ WaitForExitLimit
    \/ ReadToString

\* The jury sources tried: texts of up to MaxSrcLen letters, a letter being
\* a or a single quote.
JurySources ==
    UNION {[1..n -> {"a", "'"}] : n \in 1..MaxSrcLen}

\* The refetch path of ProblemStore::get from get_problem_info on: the
\* metadata made of the info, the jury compiled and copied, the row saved.
\* answer is the fork server's answer to the Compile command, {} for Err.
refetch(info, answer, copied, rows) ==
    LET metadata == ProblemMetadata_from(info)
        temp == UNION {compile_jury(r) : r \in answer}
        stored == IF has_jury(metadata) /\ temp # {}
                  THEN [metadata EXCEPT !.jury_exec_path = {info.id}]
                  ELSE metadata
    IN  IF has_jury(metadata) /\ (answer = {} \/ (temp # {} /\ ~copied))
        THEN [ret |-> StoreErr, rows |-> rows]
        ELSE IF ~save_executes(stored)
        THEN [ret |-> StoreErr, rows |-> rows]
        ELSE [ret |-> StoreOk(stored), rows |-> {save(stored)}]

RowIdle ==
    /\ rwInfo = ProblemInfo(1, "Standard", 0)
    /\ rwDb = {} /\ rwFirst = {} /\ rwSecond = {} /\ rwFetches = 0

RowInit ==
    /\ rwInfo \in {[ProblemInfo(1, mode, ts) EXCEPT !.jury_src = src] :
                     mode \in JudgeModes, ts \in 0..MaxTs, src \in JurySources}
    /\ rwDb = {} /\ rwFirst = {} /\ rwSecond = {} /\ rwFetches = 0

\* The first get(id): no row, so get_problem_info and the rest of the
\* refetch path.
GetRefetched ==
    /\ rwFirst = {}
    /\ \E fetched \in BOOLEAN, copied \in BOOLEAN,
          answer \in {{}, {CompilationResult_succeed}, {CompilationResult_fail}} :
         LET out == refetch(rwInfo, answer, copied, rwDb)
         IN  /\ rwFetches' = rwFetches + 1
             /\ rwFirst' = IF fetched THEN {out.ret} ELSE {StoreErr}
             /\ rwDb' = IF fetched THEN out.rows ELSE rwDb
    /\ UNCHANGED <<rwInfo, rwSecond, notRow>>

\* The following get(id), the remote timestamp being what it was: with a
\* row there `get_remote_timestamp(id)?` is asked first, and its failure is
\* the call's.
GetFollowing ==
    /\ rwFirst # {} /\ rwSecond = {}
    /\ \E asked \in BOOLEAN, fetched \in BOOLEAN, copied \in BOOLEAN,
          answer \in {{}, {CompilationResult_succeed}, {CompilationResult_fail}} :
         LET timestamp == get_timestamp(rwDb)
             hit == /\ \E ts \in timestamp : is_fresh(ts, rwInfo.timestamp)
                    /\ get_cached(rwDb) # {}
             out == refetch(rwInfo, answer, copied, rwDb)
         IN  IF timestamp # {} /\ ~asked
             THEN /\ rwSecond' = {StoreErr}
                  /\ UNCHANGED <<rwDb, rwFetches>>
             ELSE IF hit
             THEN /\ rwSecond' = {StoreOk(m) : m \in get_cached(rwDb)}
                  /\ UNCHANGED <<rwDb, rwFetches>>
             ELSE /\ rwFetches' = rwFetches + 1
                  /\ rwSecond' = IF fetched THEN {out.ret} ELSE {StoreErr}
                  /\ rwDb' = IF fetched THEN out.rows ELSE rwDb
    /\ UNCHANGED <<rwInfo, rwFirst, notRow>>

RowNext == GetRefetched \/ GetFollowing

InitJudge ==
    JudgeInit /\ DaemonIdle /\ StoreIdle /\ ForkIdle /\ WorkerIdle /\ ArchiveIdle
    /\ PoolIdle /\ SeccompIdle
    /\ RusageIdle
    /\ ObjectidIdle
    /\ CompileIdle
    /\ LocksIdle
    /\ PipeIdle
    /\ RowIdle

SpecJudge == InitJudge /\ [][JudgeNext]_vars

InitDaemon ==
    DaemonInit /\ JudgeIdle /\ StoreIdle /\ ForkIdle /\ WorkerIdle /\ ArchiveIdle
    /\ PoolIdle /\ SeccompIdle
    /\ RusageIdle
    /\ ObjectidIdle
    /\ CompileIdle
    /\ LocksIdle
    /\ PipeIdle
    /\ RowIdle

SpecDaemon == InitDaemon /\ [][DaemonNext]_vars

InitStore ==
    StoreInit /\ JudgeIdle /\ DaemonIdle /\ ForkIdle /\ WorkerIdle /\ ArchiveIdle
    /\ PoolIdle /\ SeccompIdle
    /\ RusageIdle
    /\ ObjectidIdle
    /\ CompileIdle
    /\ LocksIdle
    /\ PipeIdle
    /\ RowIdle

SpecStore == InitStore /\ [][StoreNext]_vars

InitFork ==
    ForkInit /\ JudgeIdle /\ DaemonIdle /\ StoreIdle /\ WorkerIdle /\ ArchiveIdle
    /\ PoolIdle /\ SeccompIdle
    /\ RusageIdle
    /\ ObjectidIdle
    /\ CompileIdle
    /\ LocksIdle
    /\ PipeIdle
    /\ RowIdle

SpecFork == InitFork /\ [][ForkNext]_vars

InitWorker ==
    WorkerInit /\ JudgeIdle /\ DaemonIdle /\ StoreIdle /\ ForkIdle /\ ArchiveIdle
    /\ PoolIdle /\ SeccompIdle
    /\ RusageIdle
    /\ ObjectidIdle
    /\ CompileIdle
    /\ LocksIdle
    /\ PipeIdle
    /\ RowIdle

SpecWorker == InitWorker /\ [][WorkerNext]_vars

InitArchive ==
    ArchiveInit /\ JudgeIdle /\ DaemonIdle /\ StoreIdle /\ ForkIdle /\ WorkerIdle
    /\ PoolIdle /\ SeccompIdle
    /\ RusageIdle
    /\ ObjectidIdle
    /\ CompileIdle
    /\ LocksIdle
    /\ PipeIdle
    /\ RowIdle

SpecArchive == InitArchive /\ [][ArchiveNext]_vars

InitPool ==
    PoolInit /\ JudgeIdle /\ DaemonIdle /\ StoreIdle /\ ForkIdle /\ WorkerIdle
    /\ ArchiveIdle /\ SeccompIdle
    /\ RusageIdle
    /\ ObjectidIdle
    /\ CompileIdle
    /\ LocksIdle
    /\ PipeIdle
    /\ RowIdle

SpecPool == InitPool /\ [][PoolNext]_vars

InitSeccomp ==
    SeccompInit /\ JudgeIdle /\ DaemonIdle /\ StoreIdle /\ ForkIdle /\ WorkerIdle
    /\ ArchiveIdle /\ PoolIdle
    /\ RusageIdle
    /\ ObjectidIdle
    /\ CompileIdle
    /\ LocksIdle
    /\ PipeIdle
    /\ RowIdle

SpecSeccomp == InitSeccomp /\ [][SeccompNext]_vars

InitRusage ==
    RusageInit /\ JudgeIdle /\ DaemonIdle /\ StoreIdle /\ ForkIdle
    /\ WorkerIdle /\ ArchiveIdle /\ PoolIdle /\ SeccompIdle
    /\ ObjectidIdle
    /\ CompileIdle
    /\ LocksIdle
    /\ PipeIdle
    /\ RowIdle

SpecRusage == InitRusage /\ [][RusageNext]_vars

InitObjectid ==
    ObjectidInit /\ JudgeIdle /\ DaemonIdle /\ StoreIdle /\ ForkIdle
    /\ WorkerIdle /\ ArchiveIdle /\ PoolIdle /\ SeccompIdle
    /\ RusageIdle
    /\ CompileIdle
    /\ LocksIdle
    /\ PipeIdle
    /\ RowIdle

SpecObjectid == InitObjectid /\ [][ObjectidNext]_vars

InitCompile ==
    CompileInit /\ JudgeIdle /\ DaemonIdle /\ StoreIdle /\ ForkIdle
    /\ WorkerIdle /\ ArchiveIdle /\ PoolIdle /\ SeccompIdle
    /\ RusageIdle /\ ObjectidIdle
    /\ LocksIdle
    /\ PipeIdle
    /\ RowIdle

SpecCompile == InitCompile /\ [][CompileNext]_vars

InitLocks ==
    LocksInit /\ JudgeIdle /\ DaemonIdle /\ StoreIdle /\ ForkIdle
    /\ WorkerIdle /\ ArchiveIdle /\ PoolIdle /\ SeccompIdle
    /\ RusageIdle /\ ObjectidIdle /\ CompileIdle
    /\ PipeIdle
    /\ RowIdle

SpecLocks == InitLocks /\ [][LocksNext]_vars

InitPipe ==
    PipeInit /\ JudgeIdle /\ DaemonIdle /\ StoreIdle /\ ForkIdle
    /\ WorkerIdle /\ ArchiveIdle /\ PoolIdle /\ SeccompIdle
    /\ RusageIdle /\ ObjectidIdle /\ CompileIdle /\ LocksIdle
    /\ RowIdle

SpecPipe == InitPipe /\ [][PipeNext]_vars

InitRow ==
    RowInit /\ JudgeIdle /\ DaemonIdle /\ StoreIdle /\ ForkIdle
    /\ WorkerIdle /\ ArchiveIdle /\ PoolIdle /\ SeccompIdle
    /\ RusageIdle /\ ObjectidIdle /\ CompileIdle /\ LocksIdle
    /\ PipeIdle

SpecRow == InitRow /\ [][RowNext]_vars

(***************************************************************************)
(* C1: the test_suite of a JudgeResult returned by a completed judge task  *)
(* has at most as many entries as the task's test suite, and every entry   *)
(* before the last one is Accepted (a non-Accepted entry is the last one). *)
(***************************************************************************)
C1_FailFast ==
    jPc = "done" =>
        /\ Len(jResult.test_suite) <= jSuiteLen
        /\ \A i \in 1..(Len(jResult.test_suite) - 1) :
              is_accepted(jResult.test_suite[i].verdict)

(***************************************************************************)
(* C2: no execution path drops a submission the worker has obtained: every *)
(* fetched submission is either still being handled or reported by the     *)
(* worker, or at least one PATCH request has been made for it.             *)
(***************************************************************************)
C2_EveryFetchedReported ==
    \A s \in 1..wFetched :
      \/ s = wSub /\ wPc \in {"handle", "patch"}
      \/ wPatched[s] >= 1

(***************************************************************************)
(* The latest limit check of the daemon, for C3.                           *)
(***************************************************************************)
CpuExceeded ==
    \E smp \in dSample, lim \in dLimits :
        smp.elapsed # {} /\ \E l \in lim.cpu_time_limit : cpu_time(smp.usage) > l

RealExceeded ==
    \E smp \in dSample, lim \in dLimits :
        \E l \in lim.real_time_limit : \E e \in smp.elapsed : e > l

MemExceeded ==
    \E smp \in dSample, lim \in dLimits :
        smp.elapsed # {} /\ \E l \in lim.memory_limit : smp.usage.virtual_mem_size > l

\* The daemon stops the child with the given limit status: daemon_main has
\* returned the status; once its guard is dropped SIGKILL has been sent and
\* the child no longer runs; and the status the thread leaves as the final
\* one is that status.
StoppedWith(k) ==
    /\ dPc \in {"drop", "store", "finished"}
    /\ dResult = {DaemonOk(Status(k, 0))}
    /\ dPc # "drop" => dKillSent /\ cState # "running"
    /\ dPc = "finished" => dOutcome = "ok" /\ dStatus = Status(k, 0)

(***************************************************************************)
(* C3 as stated: after a sample of a still-running child, cpu time over    *)
(* the cpu limit gives CPUTimeLimitExceeded, elapsed time over the wall    *)
(* limit gives RealTimeLimitExceeded, virtual memory over the memory limit *)
(* gives MemoryLimitExceeded, each with the child killed.                  *)
(***************************************************************************)
C3_EachLimitItsStatus ==
    /\ CpuExceeded => StoppedWith("CPUTimeLimitExceeded")
    /\ RealExceeded => StoppedWith("RealTimeLimitExceeded")
    /\ MemExceeded => StoppedWith("MemoryLimitExceeded")

(***************************************************************************)
(* C3 amended: the limits are tested in the order cpu time, wall-clock     *)
(* time, memory, and the first one exceeded decides: the child is killed   *)
(* and the final status is CPUTimeLimitExceeded when the cpu limit is      *)
(* exceeded, RealTimeLimitExceeded when the wall limit but not the cpu     *)
(* limit is, MemoryLimitExceeded when only the memory limit is.            *)
(***************************************************************************)
C3_FirstLimitDecides ==
    /\ CpuExceeded => StoppedWith("CPUTimeLimitExceeded")
    /\ (RealExceeded /\ ~CpuExceeded) => StoppedWith("RealTimeLimitExceeded")
    /\ (MemExceeded /\ ~CpuExceeded /\ ~RealExceeded) =>
           StoppedWith("MemoryLimitExceeded")

\* A sample exceeds the cpu and the wall limit at once; the status is the cpu one.
C3_Witness ==
    /\ CpuExceeded /\ RealExceeded
    /\ StoppedWith("CPUTimeLimitExceeded")

(***************************************************************************)
(* C4: when the daemon has finished, the child is not running any more;    *)
(* and unless the daemon's waitpid observed (and reaped) the child's       *)
(* termination, SIGKILL has been sent to the child.                        *)
(***************************************************************************)
C4_NoRunningChildLeft ==
    dPc = "finished" =>
        /\ cState # "running"
        /\ cState # "reaped" => dKillSent

\* The daemon failed while the child was running, and the guard killed it.
C4_Witness ==
    /\ dPc = "finished"
    /\ dOutcome = "panicked"
    /\ dKillSent
    /\ cState = "zombie"
    /\ cTerm = WaitStatus("Signaled", SIGKILL)

(***************************************************************************)
(* C5: a status a caller reads from the handle after wait_for_exit is      *)
(* never NotExited.                                                        *)
(***************************************************************************)
C5_ReadStatusIsTerminal ==
    \A s \in hRead : s \in TerminalStatus

\* The caller has read the status of a child that the daemon stopped.
C5_Witness ==
    /\ hPc = "read"
    /\ hRead = {Status("RealTimeLimitExceeded", 0)}

(***************************************************************************)
(* C6: under KeyLock::lock_and_execute the actions of two calls with equal *)
(* keys never run at the same time, and a call is never kept waiting for   *)
(* its entry mutex by a call that holds the mutex of a different key: the  *)
(* mutex it waits for is locked only while a call with its own key is      *)
(* inside its action.                                                      *)
(***************************************************************************)
InAction(t) == sPc[t] \in {"check", "fetch", "compile", "save", "unlock"}

C6_KeyLockExclusion ==
    /\ \A t, u \in Threads :
         t # u /\ InAction(t) /\ InAction(u) => sKey[t] # sKey[u]
    /\ \A t \in Threads :
         sPc[t] = "lock" /\ sMtx[t] \in kLocked =>
           \E u \in Threads : u # t /\ InAction(u) /\ sKey[u] = sKey[t]

\* One call is in the middle of its action and another call with the same
\* key waits for the entry mutex.
C6_Witness ==
    \E t, u \in Threads :
      /\ t # u /\ sKey[t] = sKey[u]
      /\ sPc[t] = "save"
      /\ sPc[u] = "lock" /\ sMtx[u] \in kLocked

\* Calls with different keys are inside their actions at the same time.
C6_WitnessIndependent ==
    \E t, u \in Threads :
      sKey[t] # sKey[u] /\ sPc[t] = "save" /\ sPc[u] = "save"

(***************************************************************************)
(* C7: every thread has called get(i) once, each call was made while the   *)
(* cache had no row of i, all the calls were in lock_and_execute at the    *)
(* same time, and all have returned.                                       *)
(***************************************************************************)
ConcurrentFirstGets(i) ==
    /\ sCalls = NumThreads
    /\ \A t \in Threads :
         /\ sPc[t] = "enter" /\ sRet[t] # {}
         /\ sKey[t] = i
         /\ "absent" \in sDid[t]
    /\ \E t \in Threads : "together" \in sDid[t]

CachedIsFresh(t) ==
    \E ts \in sSeen[t].ts : \E remote \in sSeen[t].remote : ts >= remote

C8_OneInFlight ==
    /\ Cardinality({t \in Threads : fPc[t] = "receive"}) <= 1
    /\ Len(toServer) + Cardinality(srvCmd) + Len(toClient) <= 1
    /\ \A t \in Threads : fPc[t] \in {"send", "receive"} => fLock = t

\* A call is in flight while another thread has called execute_cmd and
\* waits for the socket.
C8_Witness ==
    \E t, u \in Threads :
      /\ fPc[t] = "receive" /\ srvCmd # {}
      /\ fPc[u] = "lock"

(***************************************************************************)
(* C9: every result execute_cmd returns is the fork server's answer to the *)
(* command that same call sent, of the command's kind (Compile for         *)
(* Compile, Judge for Judge), and the server answers the commands in the   *)
(* order in which they were written to the pipe.                           *)
(***************************************************************************)
C9_AnswersInOrder ==
    /\ \A t \in Threads : \A r \in fRes[t] : \A res \in r.value :
         res.of = fCmd[t].id /\ res.kind = fCmd[t].kind
    /\ \A i, j \in 1..Len(srvLog) : i < j => srvLog[i] < srvLog[j]

\* Two threads have each got the answer to their own command, one Compile
\* and one Judge.
C9_Witness ==
    \E t, u \in Threads :
      /\ t # u /\ fPc[t] = "idle" /\ fPc[u] = "idle"
      /\ \E r \in fRes[t] : \E res \in r.value : res.kind = "Compile"
      /\ \E r \in fRes[u] : \E res \in r.value : res.kind = "Judge"
      /\ Len(srvLog) >= 2

(***************************************************************************)
(* C11: when the jury of a problem did not compile (the metadata in hand   *)
(* has a jury and jury_exec_path = None), the result the worker reports    *)
(* for a submission to it has the verdict CheckerFailed for a special-     *)
(* judge problem and InteractorFailed for an interactive one.              *)
(***************************************************************************)
C11_JuryFailedVerdict ==
    \A p \in wProblem :
        wPc = "patch" /\ has_jury(p) /\ p.jury_exec_path = {}
        => \A r \in wResult :
             r.verdict = IF p.judge_mode = "SpecialJudge" THEN "CheckerFailed"
                         ELSE "InteractorFailed"

(***************************************************************************)
(* C12: when the fork server compiled the jury successfully, the get call  *)
(* that asked for it returns, and has written to the cache, metadata whose *)
(* jury_exec_path is the copy under the jury directory named after the     *)
(* problem id.                                                             *)
(***************************************************************************)
C12_JuryPathStored ==
    [][\A t \in Threads :
         /\ sPc[t] = "save" /\ sPc'[t] = "unlock"
         /\ \E r \in sSeen[t].jury : r.succeeded
         /\ \E ret \in sRet'[t] : ret.ok
         => /\ \A ret \in sRet'[t] : \A m \in ret.value :
                 m.jury_exec_path = {sKey[t]}
            /\ \A row \in db'[sKey[t]] : row.jury_exec_path = {sKey[t]}]_vars

(***************************************************************************)
(* C13: when handle_submission returns an error (the problem store or the  *)
(* archive store failed, or a fork-server command failed, which is also    *)
(* how a fault of the sandbox inside the fork server arrives), the worker  *)
(* goes on to report a result for the submission, and that result has the  *)
(* verdict JudgeFailed and no test cases.                                  *)
(***************************************************************************)
C13_ErrorIsJudgeFailed ==
    wHandled = "err" =>
        /\ wPc = "patch" /\ wSub # 0
        /\ wResult # {}
        /\ \A r \in wResult : r.verdict = "JudgeFailed" /\ r.test_cases = <<>>

\* A fork-server command failed for a problem the store did deliver, and a
\* PATCH request with the JudgeFailed result has been made.
C13_Witness ==
    /\ wHandled = "err" /\ wProblem # {}
    /\ wPatched[wSub] >= 1
    /\ \A r \in wResult : r.verdict = "JudgeFailed" /\ r.test_cases = <<>>

(***************************************************************************)
(* C14: an error on a pipe is fatal to the fork-server client: once an     *)
(* execute_cmd call has returned an error, the owner makes no further      *)
(* call on the client.                                                     *)
(***************************************************************************)
C14_NoCallAfterError ==
    [][(\E t \in Threads : \E r \in fRes[t] : ~r.ok)
       => \A u \in Threads : fPc[u] = "idle" => fPc'[u] = "idle"]_vars

(***************************************************************************)
(* C15 as the specification states it: the monitor polls only a child      *)
(* whose builder carries a non-empty limits record; a process without      *)
(* limits, as a compiler is, is waited for by one blocking waitpid and      *)
(* never sampled.                                                          *)
(***************************************************************************)
C15_ModeByLimitsRecord ==
    dBuilder.limits = ProcessResourceLimits_empty
    => dPc \notin {"sample", "check"} /\ dSample = {}

(***************************************************************************)
(* C15 amended: the mode follows the builder's use_native_rlimit flag.     *)
(* With the flag set the daemon has no limits, waits without WNOHANG and   *)
(* neither samples nor evaluates a limit; with the flag clear the daemon   *)
(* has the builder's limits record, empty or not, and polls.               *)
(***************************************************************************)
C15_ModeByNativeRlimit ==
    IF dBuilder.use_native_rlimit
    THEN /\ ~has_daemon_limits
         /\ dPc \notin {"sample", "check"} /\ dSample = {}
         /\ dStatus.kind \notin {"CPUTimeLimitExceeded", "RealTimeLimitExceeded",
                                 "MemoryLimitExceeded"}
    ELSE has_daemon_limits /\ dLimits = {dBuilder.limits}

\* A process built as the compiler's is (flag clear, no limit) has been
\* sampled by the polling monitor and has ended normally.
C15_Witness ==
    /\ ~dBuilder.use_native_rlimit
    /\ dBuilder.limits = ProcessResourceLimits_empty
    /\ dSample # {}
    /\ dPc = "finished" /\ dStatus.kind = "Normal"

(***************************************************************************)
(* C16: when the monitor has observed the child's termination, in either   *)
(* mode, daemon_main returns: Normal(c) for an exit with code c,           *)
(* BannedSyscall for a kill by SIGSYS, the error ChildStartupFailed for a  *)
(* kill by SIGUSR1, and KilledBySignal(s) for a kill by any other signal   *)
(* s; a status is stored as the exit status, the error leaves none.        *)
(***************************************************************************)
C16_TerminationTranslated ==
    cState = "reaped" /\ dPc = "finished" =>
        \E r \in dResult :
            /\ dResult = {r}
            /\ CASE cTerm.kind = "Exited" ->
                      r.ok /\ r.status = Status("Normal", cTerm.arg)
                 [] cTerm.kind = "Signaled" /\ cTerm.arg = SIGSYS ->
                      r.ok /\ r.status = Status("BannedSyscall", 0)
                 [] cTerm.kind = "Signaled" /\ cTerm.arg = SIGUSR1 ->
                      ~r.ok /\ r.error = "ChildStartupFailed"
                 [] OTHER ->
                      r.ok /\ r.status = Status("KilledBySignal", cTerm.arg)
            /\ dStatus = r.status

\* The polling monitor has sampled a child that then killed itself by
\* SIGUSR1, and the caller's join has failed.
C16_Witness ==
    /\ cState = "reaped" /\ cTerm = WaitStatus("Signaled", SIGUSR1)
    /\ dSample # {}
    /\ dResult = {ChildStartupFailed}
    /\ hPc = "joined_err"

(***************************************************************************)
(* C17 as the specification states it: a judge task in interactive mode    *)
(* never returns a result whose verdict is Accepted, the interactor never  *)
(* having run.                                                             *)
(***************************************************************************)
C17_InteractiveNeverAccepted ==
    jMode = "Interactive" /\ jPc = "done" => ~is_accepted(jResult.verdict)

(***************************************************************************)
(* C17 amended: a judge task in interactive mode records no test-case      *)
(* result, and one with at least one test case returns no result: it ends  *)
(* in the panic of judge_interactive or in an error.  Only the task with   *)
(* an empty test suite returns, with the verdict of JudgeResult::new.      *)
(***************************************************************************)
C17_InteractiveNoResult ==
    jMode = "Interactive" =>
        /\ jResult.test_suite = <<>>
        /\ jSuiteLen >= 1 => jPc \in {"loop", "panic", "error"}
        /\ jPc = "done" => jSuiteLen = 0 /\ jResult = JudgeResult_new

\* An interactive task with test cases has ended in the panic.
C17_Witness ==
    jMode = "Interactive" /\ jSuiteLen >= 1 /\ jPc = "panic"

(***************************************************************************)
(* C18: the jury process runs under the jury limits of the engine: when a  *)
(* sample of the jury exceeds the configured jury cpu-time, real-time or   *)
(* memory limit, the monitor stops the jury with a limit status.           *)
(***************************************************************************)
C18_JuryLimitsEnforced ==
    \A c \in dJuryConfig : \A smp \in dSample :
        /\ smp.elapsed # {}
        /\ \/ \E l \in c.jury_cpu_time_limit : cpu_time(smp.usage) > l
           \/ \E l \in c.jury_real_time_limit : \E e \in smp.elapsed : e > l
           \/ \E l \in c.jury_memory_limit : smp.usage.virtual_mem_size > l
        => \E k \in {"CPUTimeLimitExceeded", "RealTimeLimitExceeded",
                      "MemoryLimitExceeded"} : StoppedWith(k)

(***************************************************************************)
(* C19: in standard mode every test-case result follows the judgee's exit  *)
(* status.  A judgee that did not exit normally gets RuntimeError (killed  *)
(* by a signal), TimeLimitExceeded (cpu time), IdlenessLimitExceeded (real *)
(* time), MemoryLimitExceeded or BannedSystemCall, and the checker did not *)
(* run (no comment).  For a judgee that exited normally the built-in       *)
(* checker ran: Accepted when it accepted, WrongAnswer when it rejected.   *)
(***************************************************************************)
C19_StandardVerdict ==
    jMode = "Standard" =>
        \A i \in DOMAIN jResult.test_suite :
            LET tc == jResult.test_suite[i]
                kind == tc.judgee_exit_status.kind
            IN CASE kind = "KilledBySignal" ->
                      tc.verdict = "RuntimeError" /\ tc.comment = "None"
                 [] kind = "CPUTimeLimitExceeded" ->
                      tc.verdict = "TimeLimitExceeded" /\ tc.comment = "None"
                 [] kind = "RealTimeLimitExceeded" ->
                      tc.verdict = "IdlenessLimitExceeded" /\ tc.comment = "None"
                 [] kind = "MemoryLimitExceeded" ->
                      tc.verdict = "MemoryLimitExceeded" /\ tc.comment = "None"
                 [] kind = "BannedSyscall" ->
                      tc.verdict = "BannedSystemCall" /\ tc.comment = "None"
                 [] kind = "Normal" ->
                      \/ tc.comment = checker_comment(TRUE) /\ tc.verdict = "Accepted"
                      \/ tc.comment = checker_comment(FALSE) /\ tc.verdict = "WrongAnswer"
                 [] OTHER -> FALSE

\* A standard task has judged a judgee stopped on real time, one whose
\* output the checker rejected and one whose output it accepted.
C19_Witness ==
    /\ jMode = "Standard" /\ jPc = "done"
    /\ \E i, j, k \in DOMAIN jResult.test_suite :
         /\ jResult.test_suite[i].verdict = "IdlenessLimitExceeded"
         /\ jResult.test_suite[j].verdict = "WrongAnswer"
         /\ jResult.test_suite[k].verdict = "Accepted"

(***************************************************************************)
(* C20: in special-judge mode, for a test case whose judgee exited         *)
(* normally the checker process ran and its exit status decides: exit code *)
(* 0 gives Accepted and any other exit code WrongAnswer, both with the     *)
(* checker's standard output as the comment; a checker killed by a signal, *)
(* stopped on a limit or on a banned system call gives CheckerFailed.      *)
(***************************************************************************)
C20_SpecialJudgeVerdict ==
    jMode = "SpecialJudge" /\ jResult.test_suite # <<>> =>
        LET tc == jResult.test_suite[Len(jResult.test_suite)]
        IN tc.judgee_exit_status.kind = "Normal" =>
             /\ jJury # {}
             /\ \A c \in jJury :
                  CASE c.kind = "Normal" /\ c.arg = 0 ->
                         tc.verdict = "Accepted" /\ tc.comment = "stdout"
                    [] c.kind = "Normal" /\ c.arg # 0 ->
                         tc.verdict = "WrongAnswer" /\ tc.comment = "stdout"
                    [] c.kind \in {"KilledBySignal", "CPUTimeLimitExceeded",
                                   "RealTimeLimitExceeded", "MemoryLimitExceeded",
                                   "BannedSyscall"} ->
                         tc.verdict = "CheckerFailed"
                    [] OTHER -> FALSE

\* The checker of the latest test case exited with a non-zero code after
\* the checker of an earlier one was stopped on its memory limit.
C20_Witness ==
    /\ jMode = "SpecialJudge" /\ Len(jResult.test_suite) >= 2
    /\ jJury = {Status("Normal", 1)}
    /\ jResult.test_suite[Len(jResult.test_suite)].verdict = "WrongAnswer"
    /\ jResult.test_suite[1].verdict = "CheckerFailed"
    /\ jResult.test_suite[1].comment = "MemoryLimitExceeded"

\* C21: the compile call returns succeeded = true, with the declared output
\* file and no compiler output, exactly when the compiler exited with
\* Normal(0); after any other exit status it returns succeeded = false with
\* the text of the compiler's stderr and no output file.
C21_CompileByExitStatus ==
    \A st \in wCompiler : \A c \in wCompiled :
        /\ c.succeeded <=> st = Status("Normal", 0)
        /\ c.succeeded => c = CompilationResult_succeed /\ c.output_file # {}
        /\ ~c.succeeded => c = CompilationResult_fail /\ c.compiler_out # {}

C21_Witness ==
    /\ \E st \in wCompiler : st.kind = "Normal" /\ st.arg # 0
    /\ wCompiled = {CompilationResult_fail}
    /\ \E r \in wResult : r.verdict = "CompilationFailed"
\* C22: a test case whose judgee was stopped for exceeding the cpu time limit
\* of the task has verdict TimeLimitExceeded and a recorded resource usage
\* whose cpu time is at least that limit.
C22_TimeLimitUsage ==
    \A i \in DOMAIN jResult.test_suite :
        LET tc == jResult.test_suite[i] IN
        tc.judgee_exit_status.kind = "CPUTimeLimitExceeded" =>
            /\ tc.verdict = "TimeLimitExceeded"
            /\ cpu_time(tc.rusage) >= jLimit
\* C23: every test case of a test archive handle has its input file and its
\* answer file on disk under the archive directory, both named by the test
\* case's stem.
C23_TestCaseFilesPresent ==
    /\ \A t \in Callers : \A r \in aRet[t] : \A h \in r.handle :
          \A k \in DOMAIN h :
              /\ input_file_path(h[k]) \in aFiles
              /\ answer_file_path(h[k]) \in aFiles
              /\ strip_extension(input_file_path(h[k]))
                   = strip_extension(answer_file_path(h[k]))
    /\ \A o \in aOpened : FALSE \notin o.input /\ FALSE \notin o.answer
\* C24: a downloaded zip is accepted as a test archive exactly when every
\* entry ends in .in or .ans and every entry has its counterpart, the entry
\* of the same directory and stem with the other suffix; an accepted
\* archive lists one test case per stem, and a rejected one is a
\* BadTestArchive that names an entry of unknown suffix or an entry
\* without counterpart.
C24_ArchiveAccepted ==
    LET Suffix(e) == e.parts[Len(e.parts)]
        Stem(e) == SubSeq(e.parts, 1, Len(e.parts) - 1)
        Known(e) == Len(e.parts) >= 2 /\ Suffix(e) \in {"in", "ans"}
        Entries == {aZip[i] : i \in DOMAIN aZip}
        Paired(e) == \E f \in Entries :
                        /\ Known(f)
                        /\ f.parent = e.parent
                        /\ Stem(f) = Stem(e)
                        /\ Suffix(f) # Suffix(e)
    IN \A t \in Callers : \A r \in aTried[t] :
         /\ r.ok <=> \A e \in Entries : Known(e) /\ Paired(e)
         /\ r.ok =>
              /\ {r.test_cases[k] : k \in DOMAIN r.test_cases}
                     = {PathOf(e.parent, Stem(e)) : e \in Entries}
              /\ \A j, k \in DOMAIN r.test_cases :
                     j # k => r.test_cases[j] # r.test_cases[k]
         /\ ~r.ok => \E c \in r.error :
                \/ c.kind = "UnknownEntry" /\ c.path \in Entries /\ ~Known(c.path)
                \/ /\ c.kind = "MissingAnswerFile"
                   /\ c.path \in Entries /\ Suffix(c.path) = "in" /\ ~Paired(c.path)
                \/ /\ c.kind = "MissingInputFile"
                   /\ c.path \in Entries /\ Suffix(c.path) = "ans" /\ ~Paired(c.path)

C24_Witness ==
    /\ Len(aZip) = 4
    /\ \E i \in DOMAIN aZip : aZip[i].parent = "subdir"
    /\ \E i \in DOMAIN aZip : aZip[i].parent = ""
    /\ \E t \in Callers : \E r \in aTried[t] :
          r.ok /\ Len(r.test_cases) = 2
\* C25: the key-lock map has an entry for a key exactly while some thread is
\* between the first and the last block of lock_and_execute for that key,
\* waiting for the entry's mutex or running under it; the entry's count is
\* the number of those threads, and the map is empty when no call is in
\* progress.
C25_KeyLockEntries ==
    LET inside(key) == {t \in Threads : sPc[t] \notin {"idle", "enter"} /\ sKey[t] = key}
    IN /\ \A key \in ProblemIds :
            /\ key \in DOMAIN kKeys <=> inside(key) # {}
            /\ key \in DOMAIN kKeys => kKeys[key].count = Cardinality(inside(key))
       /\ DOMAIN kKeys \subseteq ProblemIds
       /\ (\A t \in Threads : sPc[t] \in {"idle", "enter"}) => DOMAIN kKeys = {}

C25_Witness ==
    \E key \in DOMAIN kKeys : \E t, u \in Threads :
        /\ kKeys[key].count = 2
        /\ sPc[t] = "lock" /\ sMtx[t] \in kLocked /\ sKey[t] = key
        /\ sPc[u] = "save" /\ sKey[u] = key
\* C26: every metadata the problem store returns, every row of the problems
\* table and every metadata read back from a row has judge mode Standard
\* exactly when its jury source, jury language and jury executable path are
\* all None.
C26_StandardHasNoJury ==
    /\ \A t \in Threads : \A r \in sRet[t] : \A m \in r.value :
          m.judge_mode = "Standard"
            <=> m.jury_src = {} /\ m.jury_lang = {} /\ m.jury_exec_path = {}
    /\ \A id \in ProblemIds : \A row \in db[id] :
          /\ row.judge_mode = 0
               <=> /\ row.jury_src = {}
                   /\ row.jury_lang_id = {}
                   /\ row.jury_lang_dialect = {}
                   /\ row.jury_lang_version = {}
                   /\ row.jury_exec_path = {}
          /\ \A m \in from_db_row(row) :
               m.judge_mode = "Standard"
                 <=> m.jury_src = {} /\ m.jury_lang = {} /\ m.jury_exec_path = {}

C26_Witness ==
    /\ \E t \in Threads : \E r \in sRet[t] : \E m \in r.value :
          m.judge_mode = "SpecialJudge" /\ m.jury_src # {}
    /\ \E t \in Threads : \E r \in sRet[t] : \E m \in r.value :
          m.judge_mode = "Standard" /\ m.jury_src = {}
    /\ \A id \in ProblemIds : db[id] # {}
\* C27 as stated: while the daemon has not completed, exit_status() returns
\* NotExited and rusage() returns zero usage.
C27_ZeroUntilCompleted ==
    dOutcome = "running" /\ dPc # "idle" =>
        /\ dStatus = NotExited
        /\ Process_rusage(dRusage) = ProcessResourceUsage_new

\* C27: while the daemon has not completed, exit_status() returns NotExited;
\* rusage() returns zero usage until the daemon has taken its first sample,
\* and from then on the overall usage of the samples taken so far.
C27_NotExitedUntilCompleted ==
    dOutcome = "running" /\ dPc # "idle" =>
        /\ dStatus = NotExited
        /\ dSample = {} => Process_rusage(dRusage) = ProcessResourceUsage_new
        /\ \A sample \in dSample : Process_rusage(dRusage) = sample.usage

C27_Witness ==
    /\ dOutcome = "running" /\ dPc = "wait"
    /\ dStatus = NotExited
    /\ cpu_time(Process_rusage(dRusage)) > 0
\* C28: the worker gives up on a judge result only after the PATCH has
\* failed and been retried 3 times, that is after 1 + 3 failed requests;
\* until then every failure is followed by another request.
C28_ThreeRetries ==
    [][wPc = "patch" /\ wPc' = "poll" /\ wRetry' = 0
         => wPatched'[wSub] = 1 + RetryCount]_vars
\* C29: with at least one worker configured, run does not return while its
\* worker threads are running: when it has returned, a worker thread has
\* ended.
C29_RunBlocks ==
    pWorkers >= 1 /\ pPc \in {"ok", "err"} =>
        \E i \in 1..num_workers(pWorkers) : pThread[i] = "panicked"
\* C30: a child started with a non-empty syscall whitelist runs under a
\* filter whose default action kills the process and that has one allow
\* rule per listed syscall; once a thread of it has made a syscall outside
\* the list the whole process is terminated by SIGSYS, and the monitor
\* reports BannedSyscall.
C30_BannedSyscallKillsProcess ==
    /\ xPc \in {"filtered", "running", "dead"} /\ xWhitelist # {} =>
          \E f \in xFilter :
              /\ f.default = "KillProcess"
              /\ f.rules = {[syscall |-> sc, action |-> "Allow"] : sc \in xWhitelist}
    /\ xBanned =>
          /\ xPc = "dead" /\ xThreads = 0
          /\ xTerm = {WaitStatus("Signaled", SIGSYS)}
          /\ xStatus \subseteq {DaemonOk(Status("BannedSyscall", 0))}
(***************************************************************************)
(* C31: ProcessResourceUsage::update sets every field of the receiver to   *)
(* the maximum of the receiver's and the argument's value for that field;  *)
(* a.update(b) and b.update(a) leave equal records, and a.update(a)        *)
(* leaves a unchanged.                                                     *)
(***************************************************************************)
C31_UpdateIsFieldwiseMax ==
    /\ \A r \in uAB :
        /\ r.user_cpu_time = Max(uA.user_cpu_time, uB.user_cpu_time)
        /\ r.kernel_cpu_time = Max(uA.kernel_cpu_time, uB.kernel_cpu_time)
        /\ r.virtual_mem_size = Max(uA.virtual_mem_size, uB.virtual_mem_size)
        /\ r.resident_set_size
               = Max(uA.resident_set_size, uB.resident_set_size)
    /\ (uAB # {} /\ uBA # {}) => uAB = uBA
    /\ (uAB # {} /\ uA = uB) => uAB = {uA}

\* Both updates were made on records that differ in every field, each
\* record larger than the other in some field.
C31_Witness ==
    /\ uAB # {} /\ uBA # {}
    /\ uA.user_cpu_time > uB.user_cpu_time
    /\ uA.kernel_cpu_time < uB.kernel_cpu_time
    /\ uA.virtual_mem_size > uB.virtual_mem_size
    /\ uA.resident_set_size < uB.resident_set_size

(***************************************************************************)
(* C32: for every string s of 24 hexadecimal digits, formatting the id     *)
(* parsed from s gives s in lower case; for every ObjectId, parsing its    *)
(* formatted text gives the id back.                                       *)
(***************************************************************************)
C32_ObjectIdRoundTrip ==
    /\ (is_hex_24(oStr) /\ oParsed # {}) => oParsed = {ObjectIdOk(id) : id \in oId}
    /\ (is_hex_24(oStr) /\ oText # {}) => oText = {to_lowercase(oStr)}
    /\ oBack # {} => oBack = {ObjectIdOk(id) : id \in oId}

\* A string with upper-case digits went through from_str and to_string, and
\* the text went through from_str again.
C32_Witness ==
    /\ is_hex_24(oStr) /\ oStr[1] = "F" /\ oStr[2] = "a" /\ oStr[4] = "F"
    /\ oText # {} /\ oBack # {}
    /\ \E id \in oId : id[1] = 250 /\ id[2] # 0

(***************************************************************************)
(* C33: when the submission's source compiles successfully the worker      *)
(* goes on to the Judge request: a successful compilation never makes the  *)
(* worker thread panic inside handle_submission.                           *)
(***************************************************************************)
C33_CompiledThenJudged ==
    (\E c \in wCompiled : c.succeeded /\ c.output_file # {})
        => wHandled \in {"ok", "err"} /\ wPc # "panicked"

(***************************************************************************)
(* C34: a request whose judge-engine call fails does not stop the fork     *)
(* server: it stays in its request loop, receiving or handling a command,  *)
(* and a command a worker has sent is not left with a server that has      *)
(* ended.                                                                  *)
(***************************************************************************)
C34_ServerStaysInLoop ==
    /\ srvPc \in {"receive", "handle"}
    /\ \A t \in Threads : fPc[t] = "receive" => srvPc # "exited"

(***************************************************************************)
(* C35: the output file named in a successful CompilationResult that       *)
(* compile_source has returned exists for its consumer: the temporary      *)
(* files of the call are not removed before the result is used.            *)
(***************************************************************************)
C35_OutputFileExists ==
    \A t \in Threads : \A ret \in csRet[t] : \A r \in ret.result :
        r.succeeded => r.output_file \subseteq csFiles /\ r.output_file # {}

(***************************************************************************)
(* C36: get_or_download returns a handle only for an archive that is       *)
(* completely written: the extraction of the archive has succeeded and     *)
(* every file it writes is in the archive directory, metadata.json holds   *)
(* the test cases of the archive as one caller has written them, no        *)
(* caller is about to write it, and the handle lists those test cases; an  *)
(* extraction that failed part-way is no cache hit for a later call.       *)
(***************************************************************************)
C36_HandleOnlyWhenComplete ==
    \A t \in Callers : \A r \in aRet[t] :
        r.handle # {} =>
            /\ extract_into(aZip, 1, {}).ok
            /\ aFiles = extract_into(aZip, 1, {}).files
            /\ aWriting = {}
            /\ \E m \in try_from(aZip, 1, <<>>) :
                   /\ m.ok
                   /\ aMeta = {flatten(to_writer(m.test_cases))}
                   /\ r.handle = {m.test_cases}
            /\ \A u \in Callers :
                   aPc[u].at \notin {"create_metadata", "write_metadata"}

(***************************************************************************)
(* C37: worker threads never deadlock on the mutexes they share: in no     *)
(* reachable state is there a set of threads each of which waits for a     *)
(* mutex held by a thread of the set, so every waiting thread waits for a  *)
(* thread that can go on; and a thread only releases a mutex it holds.     *)
(***************************************************************************)
C37_NoLockCycle ==
    /\ \A S \in SUBSET Threads :
          S # {} => \E t \in S : \A u \in S : ~waits_for(t, u)
    /\ \A t \in Threads :
          (lkOps[t] # <<>> /\ Head(lkOps[t]).op = "unlock")
              => lkOwner[Head(lkOps[t]).mutex] = t

\* A thread waits for the mutex of a problem id while the thread that
\* holds it holds the fork server's socket as well.
C37_Witness ==
    \E t \in Threads, u \in Threads :
        /\ t # u /\ waits_for(t, u)
        /\ \E key \in ProblemIds : {EntryMutex(key), SocketMutex} \subseteq held_by(u)
        /\ Head(lkOps[t]).mutex \in {EntryMutex(key) : key \in ProblemIds}

(***************************************************************************)
(* C38: the engine never deadlocks on a child's output pipe: while the     *)
(* engine is in wait_for_exit, a child that would exit once its writes     *)
(* are drained is never blocked for ever in a write to the full pipe,      *)
(* however much text it writes.                                            *)
(***************************************************************************)
C38_WaitNeverStuck ==
    ~(ppEngine = "wait" /\ child_blocked /\ ~ENABLED PipeNext)

(***************************************************************************)
(* C39: once wait_for_exit has returned, the child has been reaped by      *)
(* waitpid, on every path of the monitor, the one on which it stopped the  *)
(* child for exceeding a limit included: no terminated child is left       *)
(* unwaited and none is left running.                                      *)
(***************************************************************************)
C39_ReapedAfterWait ==
    hPc \in {"joined_ok", "joined_err", "read"} => cState = "reaped"

(***************************************************************************)
(* C40: after get(id) has returned metadata through the refetch path, the  *)
(* row of the problems table for id reads back as the returned metadata,   *)
(* and a following get(id) with the remote timestamp unchanged returns     *)
(* equal metadata without another get_problem_info request.                *)
(***************************************************************************)
C40_RowEqualsReturned ==
    \A first \in rwFirst :
        first.ok =>
            /\ get_cached(rwDb) = first.value
            /\ \A second \in rwSecond : second = first /\ rwFetches = 1

====
